---- MODULE Spec2Model ----
(***************************************************************************)
(* Functions-Solver: the expression pipeline                               *)
(*   Lexer -> Parser -> AST -> Evaluator -> adaptive sampler.              *)
(*                                                                         *)
(* Indices follow the Python source (0-based cursors); a TLA+ sequence is  *)
(* 1-based, so tokens[curToken] of the source is tokens[curToken + 1].     *)
(* Numbers are exact rationals <<n, d>> (d > 0, lowest terms); Python's    *)
(* int/float distinction is not kept, since 5 == 5.0 in every comparison   *)
(* the source makes.                                                       *)
(***************************************************************************)
EXTENDS Integers, Sequences, FiniteSets, TLC

VARIABLES
    tokens,          \* Parser.tokens
    parsed,          \* outcome of Parser.parse(): [err, node, cur]
    ppc,             \* position of the parsing client: "ready" | "done"
    evaluator,       \* the Evaluator object: [ast, variable_value]
    log,             \* the evaluate calls made so far: <<[v, result], ...>>
    tpc,             \* per thread: "idle" | "walk" | "done"
    tbind,           \* per thread: the variable_value argument of its call
    treads,          \* per thread: the values its walk has read from self
    tres,            \* per thread: what its evaluate call returned or raised
    call,            \* arguments of the adaptive_sampling call
    must_evaluate_points,  \* the list object bound to must_evaluate_points (the caller's or the default)
    sampled,         \* what adaptive_sampling returned or raised: [exc, msg, x, y]
    spc,             \* position of the sampling client: "ready" | "done" | "again"
    input_str,       \* the text given to Lexer, a sequence of characters
    lexed,           \* outcome of Lexer(text): [err, pos, tokens]
    lpc,             \* position of the lexing client: "ready" | "done"
    f1_str,          \* SolverWorker.f1_str
    f2_str,          \* SolverWorker.f2_str
    finished,        \* payload of SolverSignals.finished, once emitted
    solutions,       \* text shown in the solutions container
    wpc,             \* position of the solve request: "ready" | "emitted" | "shown"
    sym_ast,         \* the tree whose to_sympy_expr is called
    converted,       \* what to_sympy_expr returned or raised: [exc, msg, expr]
    cpc,             \* position of the converting client: "ready" | "done"
    curPosition,     \* Lexer.curPosition while lex() runs
    f1_input,        \* text of the QLineEdit of the first function
    f2_input,        \* text of the QLineEdit of the second function
    f1_valid,        \* FunctionsSolver.f1_valid
    f2_valid,        \* FunctionsSolver.f2_valid
    f1_error_label,  \* text of the error label of the first function
    f2_error_label,  \* text of the error label of the second function
    enabled,         \* isEnabled() of every interactive widget
    xlim,            \* x limits of the axes
    plot_worker,     \* FunctionsSolver.plot_worker: "None" or "PlotWorker"
    solver_worker,   \* FunctionsSolver.solver_worker: "None" or "SolverWorker"
    pool,            \* workers started on the QThreadPool that have not run yet
    events           \* signals emitted by workers, queued for the main thread

parserVars == <<tokens, parsed, ppc>>
evalVars == <<evaluator, log>>
threadVars == <<tpc, tbind, treads, tres>>
samplerVars == <<call, must_evaluate_points, sampled, spc>>
lexerVars == <<input_str, lexed, lpc>>
solverVars == <<f1_str, f2_str, finished, solutions, wpc>>
symVars == <<sym_ast, converted, cpc>>
scanVars == <<curPosition>>
appVars == <<f1_input, f2_input, f1_valid, f2_valid, f1_error_label, f2_error_label, enabled, xlim, plot_worker, solver_worker, pool, events>>
vars == <<tokens, parsed, ppc, evaluator, log, tpc, tbind, treads, tres,
          call, must_evaluate_points, sampled, spc, input_str, lexed, lpc,
          f1_str, f2_str, finished, solutions, wpc,
          sym_ast, converted, cpc,
          curPosition,
          f1_input, f2_input, f1_valid, f2_valid, f1_error_label, f2_error_label, enabled, xlim, plot_worker, solver_worker, pool, events>>

(***************************************************************************)
(* Bounds                                                                  *)
(***************************************************************************)
MaxLen == 4          \* longest token sequence drawn from the full alphabet
MaxChain == 4        \* operands in a chain a ^ b ^ ... ^ z
MaxLit == 2          \* number literals of the evaluated trees are 0..MaxLit
MaxBinding == 1      \* variable values are -MaxBinding..MaxBinding
MaxCalls == 3        \* evaluate calls made on one Evaluator
MaxPoints == 3       \* num_points of a sampling call is 1..MaxPoints
MaxMust == 2         \* longest must_evaluate_points list
MaxText == 5         \* longest text given to the Lexer
Prec == 100          \* irrational results of math.* are kept to 1/Prec

(***************************************************************************)
(* Rationals                                                               *)
(***************************************************************************)
Abs(n) == IF n < 0 THEN -n ELSE n

RECURSIVE Gcd(_, _)
Gcd(a, b) == IF b = 0 THEN a ELSE Gcd(b, a % b)

Rat(n, d) ==
    LET g == Gcd(Abs(n), Abs(d))
        s == IF d < 0 THEN -1 ELSE 1
    IN  <<(s * n) \div g, (s * d) \div g>>

Int2Rat(n) == <<n, 1>>

RatAdd(a, b) == Rat(a[1] * b[2] + b[1] * a[2], a[2] * b[2])
RatNeg(a) == <<-a[1], a[2]>>
RatSub(a, b) == RatAdd(a, RatNeg(b))
RatMul(a, b) == Rat(a[1] * b[1], a[2] * b[2])
RatDiv(a, b) == Rat(a[1] * b[2], a[2] * b[1])          \* b # 0
RatLt(a, b) == a[1] * b[2] < b[1] * a[2]
RatLe(a, b) == a[1] * b[2] <= b[1] * a[2]
RatAbs(a) == <<Abs(a[1]), a[2]>>
RatIsInt(a) == a[2] = 1
Zero == Int2Rat(0)

RECURSIVE IntPow(_, _)
IntPow(b, e) == IF e = 0 THEN 1 ELSE b * IntPow(b, e - 1)

\* floor of the square root of a natural number
RECURSIVE ISqrtBetween(_, _, _)
ISqrtBetween(n, lo, hi) ==
    IF hi - lo <= 1 THEN lo
    ELSE LET mid == (lo + hi) \div 2
         IN  IF mid * mid <= n THEN ISqrtBetween(n, mid, hi) ELSE ISqrtBetween(n, lo, mid)
ISqrt(n) == ISqrtBetween(n, 0, 46341)
IsSquare(n) == ISqrt(n) * ISqrt(n) = n

\* a rounded away from zero to a multiple of 1/Prec
RoundAway(a) ==
    LET m == Abs(a[1]) * Prec
        q == m \div a[2]
        up == IF m % a[2] = 0 THEN q ELSE q + 1
    IN  Rat(IF a[1] < 0 THEN -up ELSE up, Prec)

(***************************************************************************)
(* src/calc/token/token.py                                                 *)
(***************************************************************************)
Token(type, value) == [type |-> type, value |-> value]

(***************************************************************************)
(* src/calc/ast/ast.py: the five node classes (structural equality)        *)
(***************************************************************************)
NumberLiteral(value) == <<"NumberLiteral", value>>
Variable(value) == <<"Variable", value>>
PrefixExpression(operator, operand) == <<"PrefixExpression", operator, operand>>
InfixExpression(left, operator, right) == <<"InfixExpression", left, operator, right>>
FunctionCall(function, parameter) == <<"FunctionCall", function, parameter>>

(***************************************************************************)
(* src/calc/parser/parser.py                                               *)
(***************************************************************************)
\* mutant: '*' and '/' on the level of '+' and '-'
precedencesFlat ==
    [plus |-> 1, minus |-> 1, asterisk |-> 1, slash |-> 1, exponent |-> 3,
     variable |-> 4, lparen |-> 4, function |-> 4]

precedences ==
    [plus |-> 1, minus |-> 1, asterisk |-> 2, slash |-> 2, exponent |-> 3,
     variable |-> 4, lparen |-> 4, function |-> 4]

implicitMultiplications == {"variable", "function", "lparen"}

\* Token types with a handler registered in Parser.__init__
prefixFunctions == {"number", "variable", "minus", "plus", "lparen", "function"}
infixFunctions == {"plus", "minus", "asterisk", "slash", "exponent",
                   "variable", "lparen", "function"}

\* A parser method returns a node and leaves self.curToken at cur, or raises.
Ok(node, cur) == [err |-> "", node |-> node, cur |-> cur]
Raise(msg, cur) == [err |-> msg, node |-> <<>>, cur |-> cur]

getPrecedence(toks, cur) ==
    IF toks[cur + 1].type \notin DOMAIN precedences
    THEN 0
    ELSE precedences[toks[cur + 1].type]

parseNumber(token, cur) == Ok(NumberLiteral(token.value), cur)

parseVariable(token, cur) == Ok(Variable(token.value), cur)

RECURSIVE parseExpression(_, _, _)
RECURSIVE parseInfixLoop(_, _, _, _)
RECURSIVE parsePrefixExpression(_, _, _)
RECURSIVE parsePrefixPlus(_, _)
RECURSIVE parseParen(_, _)
RECURSIVE parseFunction(_, _, _)
RECURSIVE parseInfixExpression(_, _, _, _)
RECURSIVE parseImplicitMultiplication(_, _, _)
RECURSIVE parseInfixExpressionLeftAssoc(_, _, _, _)
RECURSIVE parseImplicitMultiplicationLoose(_, _, _)
RECURSIVE parseFunctionNoEndCheck(_, _, _)
RECURSIVE parseParenStrict(_, _)
RECURSIVE parseInfixLoopNoGuard(_, _, _, _)
RECURSIVE parseInfixExpressionRightAssoc(_, _, _, _)

\* registerPrefix("minus", ...): the operand is parseExpression() at precedence 0
parsePrefixExpression(toks, cur, token) ==
    LET operand == parseExpression(toks, cur, 0)
    IN  IF operand.err # "" THEN operand
        ELSE Ok(PrefixExpression(token.value, operand.node), operand.cur)

\* registerPrefix("plus", lambda _: self.parseExpression())
parsePrefixPlus(toks, cur) == parseExpression(toks, cur, 0)

\* mutant: a ')' is required also at the end of the input
parseParenStrict(toks, cur) ==
    LET node == parseExpression(toks, cur, 0)
    IN  IF node.err # "" THEN node
        ELSE IF node.cur >= Len(toks) \/ toks[node.cur + 1].type # "rparen"
        THEN Raise("Expected right parenthesis", node.cur)
        ELSE Ok(node.node, node.cur + 1)

parseParen(toks, cur) ==
    LET node == parseExpression(toks, cur, 0)
    IN  IF node.err # "" THEN node
        ELSE IF node.cur < Len(toks) /\ toks[node.cur + 1].type # "rparen"
        THEN Raise("Expected right parenthesis", node.cur)
        ELSE Ok(node.node, node.cur + 1)

\* mutant: the token after the function name is read without the end check
parseFunctionNoEndCheck(toks, cur, token) ==
    IF cur >= Len(toks) THEN Raise("IndexError", cur)
    ELSE IF toks[cur + 1].type # "lparen" THEN Raise("Expected left parenthesis", cur)
    ELSE LET parameter == parseParen(toks, cur + 1)
         IN  IF parameter.err # "" THEN parameter
             ELSE Ok(FunctionCall(token.value, parameter.node), parameter.cur)

parseFunction(toks, cur, token) ==
    IF cur >= Len(toks) THEN Raise("Expected left parenthesis", cur)
    ELSE IF toks[cur + 1].type # "lparen" THEN Raise("Expected left parenthesis", cur)
    ELSE LET parameter == parseParen(toks, cur + 1)
         IN  IF parameter.err # "" THEN parameter
             ELSE Ok(FunctionCall(token.value, parameter.node), parameter.cur)

\* mutant: '^' parses its right operand like the other operators
parseInfixExpressionLeftAssoc(toks, cur, left, token) ==
    LET right == parseExpression(toks, cur, precedences[token.type])
    IN  IF right.err # "" THEN right
        ELSE Ok(InfixExpression(left, token.value, right.node), right.cur)

\* mutant: every operator parses its right operand one level lower, as '^' does
parseInfixExpressionRightAssoc(toks, cur, left, token) ==
    LET right == parseExpression(toks, cur, precedences[token.type] - 1)
    IN  IF right.err # "" THEN right
        ELSE Ok(InfixExpression(left, token.value, right.node), right.cur)

parseInfixExpression(toks, cur, left, token) ==
    LET right == IF token.type = "exponent"
                 THEN parseExpression(toks, cur, precedences[token.type] - 1)
                 ELSE parseExpression(toks, cur, precedences[token.type])
    IN  IF right.err # "" THEN right
        ELSE Ok(InfixExpression(left, token.value, right.node), right.cur)

\* mutant: the right operand of an implicit product is parsed at base precedence
parseImplicitMultiplicationLoose(toks, cur, left) ==
    LET right == parseExpression(toks, cur, 0)
    IN  IF right.err # "" THEN right
        ELSE Ok(InfixExpression(left, "*", right.node), right.cur)

parseImplicitMultiplication(toks, cur, left) ==
    LET right == parseExpression(toks, cur, precedences["asterisk"])
    IN  IF right.err # "" THEN right
        ELSE Ok(InfixExpression(left, "*", right.node), right.cur)

\* mutant: the loop reads the precedence of the current token before it
\* checks that there is one
parseInfixLoopNoGuard(toks, cur, precedence, left) ==
    IF cur >= Len(toks) THEN Raise("IndexError", cur)
    ELSE IF precedence < getPrecedence(toks, cur)
    THEN LET token == toks[cur + 1]
             c1 == IF token.type \notin implicitMultiplications THEN cur + 1 ELSE cur
             r == IF token.type \notin infixFunctions THEN Raise("KeyError", c1)
                  ELSE IF token.type \in implicitMultiplications
                  THEN parseImplicitMultiplication(toks, c1, left)
                  ELSE parseInfixExpression(toks, c1, left, token)
         IN  IF r.err # "" THEN r
             ELSE parseInfixLoopNoGuard(toks, r.cur, precedence, r.node)
    ELSE Ok(left, cur)

\* The while loop of parseExpression (parser.py lines 103-108)
parseInfixLoop(toks, cur, precedence, left) ==
    IF cur < Len(toks) /\ precedence < getPrecedence(toks, cur)
    THEN LET token == toks[cur + 1]
             c1 == IF token.type \notin implicitMultiplications THEN cur + 1 ELSE cur
             r == IF token.type \notin infixFunctions THEN Raise("KeyError", c1)
                  ELSE IF token.type \in implicitMultiplications
                  THEN parseImplicitMultiplication(toks, c1, left)
                  ELSE parseInfixExpression(toks, c1, left, token)
         IN  IF r.err # "" THEN r
             ELSE parseInfixLoop(toks, r.cur, precedence, r.node)
    ELSE Ok(left, cur)

parseExpression(toks, cur, precedence) ==
    IF cur >= Len(toks)
    THEN Raise("Nothing to parse at the end of the input", cur)
    ELSE LET token == toks[cur + 1]
             c1 == cur + 1
         IN  IF token.type \notin prefixFunctions
             THEN Raise("No prefix function for " \o token.value, c1)
             ELSE LET left == CASE token.type = "number" -> parseNumber(token, c1)
                                [] token.type = "variable" -> parseVariable(token, c1)
                                [] token.type = "minus" -> parsePrefixExpression(toks, c1, token)
                                [] token.type = "plus" -> parsePrefixPlus(toks, c1)
                                [] token.type = "lparen" -> parseParen(toks, c1)
                                [] token.type = "function" -> parseFunction(toks, c1, token)
                  IN  IF left.err # "" THEN left
                      ELSE parseInfixLoop(toks, left.cur, precedence, left.node)

\* mutant: leftover tokens are not checked
parseNoLeftoverCheck(toks) == parseExpression(toks, 0, 0)

\* Parser.parse
parse(toks) ==
    LET tree == parseExpression(toks, 0, 0)
    IN  IF tree.err # "" THEN tree
        ELSE IF tree.cur < Len(toks) THEN Raise("Not a valid expression", tree.cur)
        ELSE tree

(***************************************************************************)
(* src/calc/lexer/lexer.py                                                 *)
(* A text is a sequence of one-character strings.                          *)
(***************************************************************************)
Digits == {"0", "1", "2", "3", "4", "5", "6", "7", "8", "9"}
Letters == {"a", "b", "c", "d", "e", "f", "g", "h", "i", "j", "k", "l", "m",
            "n", "o", "p", "q", "r", "s", "t", "u", "v", "w", "x", "y", "z"}
Spaces == {" "}

isdigit(c) == c \in Digits
isalpha(c) == c \in Letters
isalnum(c) == c \in Digits \cup Letters
isspace(c) == c \in Spaces

DigitValue(c) ==
    CASE c = "0" -> 0 [] c = "1" -> 1 [] c = "2" -> 2 [] c = "3" -> 3 [] c = "4" -> 4
      [] c = "5" -> 5 [] c = "6" -> 6 [] c = "7" -> 7 [] c = "8" -> 8 [] c = "9" -> 9

\* int(num) / float(num) of a digit string with at most one '.'
RECURSIVE NumberValue(_, _, _, _)
NumberValue(num, i, n, scale) ==
    IF i > Len(num) THEN Rat(n, IF scale = 0 THEN 1 ELSE scale)
    ELSE IF num[i] = "." THEN NumberValue(num, i + 1, n, 1)
    ELSE NumberValue(num, i + 1, n * 10 + DigitValue(num[i]), scale * 10)

LexOk(token, cur) == [err |-> "", pos |-> 0, token |-> token, cur |-> cur]
LexerError(message, position) ==
    [err |-> message, pos |-> position, token |-> Token("none", ""), cur |-> position - 1]

RECURSIVE read_number_loop(_, _, _, _)
read_number_loop(text, cur, num, hasDecimalPoint) ==
    IF cur < Len(text) /\ isdigit(text[cur + 1])
    THEN read_number_loop(text, cur + 1, Append(num, text[cur + 1]), hasDecimalPoint)
    ELSE IF /\ cur < Len(text) /\ text[cur + 1] = "."
            /\ cur + 1 < Len(text) /\ isdigit(text[cur + 2])
         THEN IF ~hasDecimalPoint
              THEN read_number_loop(text, cur + 1, Append(num, "."), TRUE)
              ELSE LexerError("Multiple decimal points", cur + 1)
    ELSE LexOk(Token("number", NumberValue(num, 1, 0, 0)), cur)

\* mutant: a '.' is taken into the number whatever follows it
RECURSIVE read_number_loopAnyDot(_, _, _, _)
read_number_loopAnyDot(text, cur, num, hasDecimalPoint) ==
    IF cur < Len(text) /\ isdigit(text[cur + 1])
    THEN read_number_loopAnyDot(text, cur + 1, Append(num, text[cur + 1]), hasDecimalPoint)
    ELSE IF cur < Len(text) /\ text[cur + 1] = "."
         THEN IF ~hasDecimalPoint
              THEN read_number_loopAnyDot(text, cur + 1, Append(num, "."), TRUE)
              ELSE LexerError("Multiple decimal points", cur + 1)
    ELSE LexOk(Token("number", NumberValue(num, 1, 0, 0)), cur)

read_numberAnyDot(text, cur) == read_number_loopAnyDot(text, cur, <<>>, FALSE)

read_number(text, cur) == read_number_loop(text, cur, <<>>, FALSE)

RECURSIVE read_function_loop(_, _, _)
read_function_loop(text, cur, fun) ==
    IF cur < Len(text) /\ isalnum(text[cur + 1])
    THEN read_function_loop(text, cur + 1, fun \o text[cur + 1])
    ELSE LexOk(Token("function", fun), cur)

\* mutant: a function name is a run of letters, ended by a digit
RECURSIVE read_function_loopLetters(_, _, _)
read_function_loopLetters(text, cur, fun) ==
    IF cur < Len(text) /\ isalpha(text[cur + 1])
    THEN read_function_loopLetters(text, cur + 1, fun \o text[cur + 1])
    ELSE LexOk(Token("function", fun), cur)

read_functionLetters(text, cur) == read_function_loopLetters(text, cur, "")

read_function(text, cur) == read_function_loop(text, cur, "")

RECURSIVE ignoreWhitespaces(_, _)
ignoreWhitespaces(text, cur) ==
    IF cur < Len(text) /\ isspace(text[cur + 1])
    THEN ignoreWhitespaces(text, cur + 1)
    ELSE cur

SingleCharTypes ==
    [c \in {"-", "+", "*", "/", "^", "(", ")", "."} |->
        CASE c = "-" -> "minus" [] c = "+" -> "plus" [] c = "*" -> "asterisk"
          [] c = "/" -> "slash" [] c = "^" -> "exponent" [] c = "(" -> "lparen"
          [] c = ")" -> "rparen" [] c = "." -> "dot"]

\* mutant: a '.' followed by a digit starts a number scan
RECURSIVE lex_loopLeadingDot(_, _, _, _)
lex_loopLeadingDot(text, variable, cur, toks) ==
    IF cur >= Len(text) THEN [err |-> "", pos |-> 0, tokens |-> toks]
    ELSE LET char == text[cur + 1]
         IN  IF char = variable
             THEN lex_loopLeadingDot(text, variable, cur + 1, Append(toks, Token("variable", "x")))
             ELSE IF isdigit(char) \/ (char = "." /\ cur + 1 < Len(text) /\ isdigit(text[cur + 2]))
             THEN LET n == read_number(text, cur)
                  IN  IF n.err # "" THEN [err |-> n.err, pos |-> n.pos, tokens |-> <<>>]
                      ELSE lex_loopLeadingDot(text, variable, n.cur, Append(toks, n.token))
             ELSE IF isspace(char)
             THEN lex_loopLeadingDot(text, variable, ignoreWhitespaces(text, cur), toks)
             ELSE IF char \in {"-", "+", "*", "/", "^", "(", ")"}
             THEN lex_loopLeadingDot(text, variable, cur + 1,
                                     Append(toks, Token(SingleCharTypes[char], char)))
             ELSE IF isalpha(char)
             THEN LET f == read_function(text, cur)
                  IN  lex_loopLeadingDot(text, variable, f.cur, Append(toks, f.token))
             ELSE IF char = "."
             THEN lex_loopLeadingDot(text, variable, cur + 1, Append(toks, Token("dot", char)))
             ELSE [err |-> "Invalid character", pos |-> cur + 1, tokens |-> <<>>]

\* Lexer.lex: the tokens of text, or the LexerError it raises
RECURSIVE lex_loop(_, _, _, _)
lex_loop(text, variable, cur, toks) ==
    IF cur >= Len(text) THEN [err |-> "", pos |-> 0, tokens |-> toks]
    ELSE LET char == text[cur + 1]
         IN  IF char = variable
             THEN lex_loop(text, variable, cur + 1, Append(toks, Token("variable", "x")))
             ELSE IF isdigit(char)
             THEN LET n == read_number(text, cur)
                  IN  IF n.err # "" THEN [err |-> n.err, pos |-> n.pos, tokens |-> <<>>]
                      ELSE lex_loop(text, variable, n.cur, Append(toks, n.token))
             ELSE IF isspace(char)
             THEN lex_loop(text, variable, ignoreWhitespaces(text, cur), toks)
             ELSE IF char \in {"-", "+", "*", "/", "^", "(", ")"}
             THEN lex_loop(text, variable, cur + 1,
                           Append(toks, Token(SingleCharTypes[char], char)))
             ELSE IF isalpha(char)
             THEN LET f == read_function(text, cur)
                  IN  lex_loop(text, variable, f.cur, Append(toks, f.token))
             ELSE IF char = "."
             THEN lex_loop(text, variable, cur + 1, Append(toks, Token("dot", char)))
             ELSE [err |-> "Invalid character", pos |-> cur + 1, tokens |-> <<>>]

\* mutant: the position of an invalid character is reported 0-based
LexerZeroBased(text) ==
    [err |-> lex_loop(text, "x", 0, <<>>).err,
     pos |-> IF lex_loop(text, "x", 0, <<>>).err = "Invalid character"
             THEN lex_loop(text, "x", 0, <<>>).pos - 1
             ELSE lex_loop(text, "x", 0, <<>>).pos,
     tokens |-> lex_loop(text, "x", 0, <<>>).tokens]

\* Lexer(text): variable defaults to "x"
Lexer(text) == lex_loop(text, "x", 0, <<>>)

\* helpers.parse_expression
parse_expression(expr) ==
    LET lexer == Lexer(expr)
    IN  IF lexer.err # "" THEN Raise(lexer.err, 0) ELSE parse(lexer.tokens)

(***************************************************************************)
(* Host numerics used by the evaluator: Python operators, module math.     *)
(* Sums, products, quotients and integer powers are exact.  The irrational *)
(* results of                                                              *)
(* math.sqrt, math.log10, math.sin and math.cos are approximations rounded *)
(* away from zero, so that sign and zero of a result are those of the      *)
(* approximated value.                                                     *)
(***************************************************************************)
\* math.sqrt(a), a >= 0: exact on squares, otherwise rounded up to 1/Prec
math_sqrt(a) ==
    IF IsSquare(a[1]) /\ IsSquare(a[2]) THEN Rat(ISqrt(a[1]), ISqrt(a[2]))
    ELSE Rat(ISqrt((a[1] * Prec * Prec) \div a[2]) + 1, Prec)

\* math.log10(a), a > 0: exact on powers of ten, linear between them
RECURSIVE math_log10(_)
math_log10(a) ==
    IF RatLe(Int2Rat(10), a) THEN RatAdd(Int2Rat(1), math_log10(RatDiv(a, Int2Rat(10))))
    ELSE IF RatLt(a, Int2Rat(1)) THEN RatSub(math_log10(RatMul(a, Int2Rat(10))), Int2Rat(1))
    ELSE RatDiv(RatSub(a, Int2Rat(1)), Int2Rat(9))

\* math.sin(a): parabolic arcs over half periods, with pi taken as 22/7
PiApprox == <<22, 7>>
math_sin(a) ==
    LET twoPi == RatMul(Int2Rat(2), PiApprox)
        q == RatDiv(a, twoPi)
        m == q[1] \div q[2]
        r == RatSub(a, RatMul(Int2Rat(m), twoPi))
        arc(t) == RatDiv(RatMul(Int2Rat(4), RatMul(t, RatSub(PiApprox, t))),
                         RatMul(PiApprox, PiApprox))
    IN  IF RatLe(r, PiApprox) THEN RoundAway(arc(r))
        ELSE RoundAway(RatNeg(arc(RatSub(r, PiApprox))))

math_cos(a) == math_sin(RatAdd(a, RatDiv(PiApprox, Int2Rat(2))))

(***************************************************************************)
(* src/calc/evaluator/evaluator.py                                         *)
(*                                                                         *)
(* An evaluation reads self.variable_value once per Variable node it       *)
(* visits.  reads is the sequence of values those reads return, k the      *)
(* number of reads made so far; a walk that needs a read beyond reads is   *)
(* "blocked" there.                                                        *)
(***************************************************************************)
Value(v, k) == [exc |-> "", msg |-> "", val |-> v, k |-> k]
Throw(exc, msg, k) == [exc |-> exc, msg |-> msg, val |-> Zero, k |-> k]
Blocked(k) == Throw("blocked", "", k)

EvaluatorError(message, k) == Throw("EvaluatorError", "EvaluatorError: " \o message, k)
UnknownFunctionError(message, k) ==
    Throw("UnknownFunctionError", "Unknown Function: " \o message, k)

\* left ** right of Python for an integer exponent
HostPow(b, e, k) ==
    IF ~RatIsInt(e) THEN Throw("unmodelled", "non-integer exponent", k)
    ELSE IF e[1] >= 0 THEN Value(Rat(IntPow(b[1], e[1]), IntPow(b[2], e[1])), k)
    ELSE IF b[1] = 0
         THEN Throw("ZeroDivisionError", "0.0 cannot be raised to a negative power", k)
    ELSE Value(Rat(IntPow(b[2], -e[1]), IntPow(b[1], -e[1])), k)

evaluate_number(number, k) == Value(number[2], k)

evaluate_variable(reads, k) ==
    IF k < Len(reads) THEN Value(reads[k + 1], k + 1) ELSE Blocked(k)

RECURSIVE evaluate_expression(_, _, _)
RECURSIVE evaluate_prefix_expression(_, _, _)
RECURSIVE evaluate_infix_expression(_, _, _)
RECURSIVE evaluate_function_call(_, _, _)
RECURSIVE evaluate_function_callStrict(_, _, _)
RECURSIVE evaluate_function_callArgFirst(_, _, _)

evaluate_prefix_expression(expression, reads, k) ==
    IF expression[2] \in {"-", "+"}
    THEN LET operand == evaluate_expression(expression[3], reads, k)
         IN  IF operand.exc # "" THEN operand
             ELSE IF expression[2] = "-" THEN Value(RatNeg(operand.val), operand.k)
             ELSE operand
    ELSE EvaluatorError("Not a vaild prefix operator", k)

evaluate_infix_expression(expression, reads, k) ==
    IF expression[3] \notin {"+", "-", "*", "/", "^"}
    THEN EvaluatorError("Not a vaild infix operator", k)
    ELSE LET left == evaluate_expression(expression[2], reads, k)
         IN  IF left.exc # "" THEN left
             ELSE LET right == evaluate_expression(expression[4], reads, left.k)
                  IN  IF right.exc # "" THEN right
                      ELSE CASE expression[3] = "+" -> Value(RatAdd(left.val, right.val), right.k)
                             [] expression[3] = "-" -> Value(RatSub(left.val, right.val), right.k)
                             [] expression[3] = "*" -> Value(RatMul(left.val, right.val), right.k)
                             [] expression[3] = "/" ->
                                   IF right.val = Zero
                                   THEN EvaluatorError("Division by zero", right.k)
                                   ELSE Value(RatDiv(left.val, right.val), right.k)
                             [] expression[3] = "^" -> HostPow(left.val, right.val, right.k)

\* mutant: the argument is evaluated before the name is looked at
evaluate_function_callArgFirst(function, reads, k) ==
    LET value == evaluate_expression(function[3], reads, k)
    IN  IF value.exc # "" THEN value
        ELSE IF function[2] \notin {"sqrt", "log10", "sin", "cos"}
        THEN UnknownFunctionError(function[2], value.k)
        ELSE Value(value.val, value.k)

\* mutant: every function guards its argument like log10
evaluate_function_callStrict(function, reads, k) ==
    IF function[2] \notin {"sqrt", "log10", "sin", "cos"}
    THEN UnknownFunctionError(function[2], k)
    ELSE LET value == evaluate_expression(function[3], reads, k)
         IN  IF value.exc # "" THEN value
             ELSE IF RatLe(value.val, Zero)
                  THEN EvaluatorError("Logarithm of non-positive number", value.k)
             ELSE Value(math_log10(value.val), value.k)

\* mutant: a failure of the argument is reported as the function's own failure
evaluate_function_callMasked(function, reads, k) ==
    IF function[2] \notin {"sqrt", "log10", "sin", "cos"}
    THEN UnknownFunctionError(function[2], k)
    ELSE LET value == evaluate_expression(function[3], reads, k)
         IN  IF value.exc = "blocked" THEN value
             ELSE CASE function[2] = "sqrt" ->
                         IF value.exc # "" \/ RatLt(value.val, Zero)
                         THEN EvaluatorError("Square root of negative number", value.k)
                         ELSE Value(math_sqrt(value.val), value.k)
                    [] function[2] = "log10" ->
                         IF value.exc # "" \/ RatLe(value.val, Zero)
                         THEN EvaluatorError("Logarithm of non-positive number", value.k)
                         ELSE Value(math_log10(value.val), value.k)
                    [] function[2] = "sin" ->
                         IF value.exc # "" THEN value ELSE Value(math_sin(value.val), value.k)
                    [] function[2] = "cos" ->
                         IF value.exc # "" THEN value ELSE Value(math_cos(value.val), value.k)

evaluate_function_call(function, reads, k) ==
    IF function[2] \notin {"sqrt", "log10", "sin", "cos"}
    THEN UnknownFunctionError(function[2], k)
    ELSE LET value == evaluate_expression(function[3], reads, k)
         IN  IF value.exc # "" THEN value
             ELSE CASE function[2] = "sqrt" ->
                         IF RatLt(value.val, Zero)
                         THEN EvaluatorError("Square root of negative number", value.k)
                         ELSE Value(math_sqrt(value.val), value.k)
                    [] function[2] = "log10" ->
                         IF RatLe(value.val, Zero)
                         THEN EvaluatorError("Logarithm of non-positive number", value.k)
                         ELSE Value(math_log10(value.val), value.k)
                    [] function[2] = "sin" -> Value(math_sin(value.val), value.k)
                    [] function[2] = "cos" -> Value(math_cos(value.val), value.k)

evaluate_expression(node, reads, k) ==
    CASE node[1] = "NumberLiteral" -> evaluate_number(node, k)
      [] node[1] = "Variable" -> evaluate_variable(reads, k)
      [] node[1] = "PrefixExpression" -> evaluate_prefix_expression(node, reads, k)
      [] node[1] = "InfixExpression" -> evaluate_infix_expression(node, reads, k)
      [] node[1] = "FunctionCall" -> evaluate_function_call(node, reads, k)
      [] OTHER -> Value(Int2Rat(1), k)

\* Number of Variable nodes of a tree: the most reads one walk can make
RECURSIVE VariableCount(_)
VariableCount(node) ==
    CASE node[1] = "PrefixExpression" -> VariableCount(node[3])
      [] node[1] = "InfixExpression" -> VariableCount(node[2]) + VariableCount(node[4])
      [] node[1] = "FunctionCall" -> VariableCount(node[3])
      [] node[1] = "Variable" -> 1
      [] OTHER -> 0

\* The walk when every read returns v
Walk(node, v) == evaluate_expression(node, [i \in 1..VariableCount(node) |-> v], 0)

\* mutant: the walk runs on the stored binding before the new one is stored
evaluateStale(self, variable_value) ==
    [self |-> [self EXCEPT !.variable_value = variable_value],
     result |-> Walk(self.ast, self.variable_value)]

\* Evaluator.evaluate: store the binding in self, then walk self.ast
evaluate(self, variable_value) ==
    LET stored == [self EXCEPT !.variable_value = variable_value]
    IN  [self |-> stored, result |-> Walk(stored.ast, stored.variable_value)]

\* Evaluator.__init__
Evaluator(tree) == [ast |-> tree, variable_value |-> Zero]

(***************************************************************************)
(* src/utils/helpers.py                                                    *)
(* func is the bound method Evaluator(ast).evaluate, so a sampling pass    *)
(* carries the Evaluator object self through its calls.  An element of y   *)
(* is [nan, val]; nan marks numpy.nan.                                     *)
(***************************************************************************)
tolerance == <<1, 1000>>

Range(q) == {q[i] : i \in 1..Len(q)}

\* the members of a finite set of numbers in ascending order
RECURSIVE SortedSeq(_)
SortedSeq(S) ==
    IF S = {} THEN <<>>
    ELSE LET m == CHOOSE a \in S : \A b \in S : RatLe(a, b)
         IN  <<m>> \o SortedSeq(S \ {m})

\* numpy.linspace(start, stop, num)
linspace(start, stop, num) ==
    [i \in 1..num |->
        IF num = 1 THEN start
        ELSE RatAdd(start, RatDiv(RatMul(Int2Rat(i - 1), RatSub(stop, start)),
                                  Int2Rat(num - 1)))]

\* numpy.union1d(a, b): the sorted unique values of both
union1d(a, b) == SortedSeq(Range(a) \cup Range(b))

Number(v) == [nan |-> FALSE, val |-> v]
NaN == [nan |-> TRUE, val |-> Zero]

\* safe_evaluate: y of the points from i on, appended to y; r is the outcome
\* of func(x) at point i
RECURSIVE safe_evaluate_loop(_, _, _, _)
safe_evaluate_point(r, x_values, i, y) ==
    IF r.result.exc = ""
    THEN safe_evaluate_loop(r.self, x_values, i + 1, Append(y, Number(r.result.val)))
    ELSE IF r.result.exc = "EvaluatorError"
    THEN safe_evaluate_loop(r.self, x_values, i + 1, Append(y, NaN))
    ELSE [self |-> r.self, exc |-> r.result.exc, msg |-> r.result.msg, y |-> <<>>]

safe_evaluate_loop(self, x_values, i, y) ==
    IF i > Len(x_values) THEN [self |-> self, exc |-> "", msg |-> "", y |-> y]
    ELSE safe_evaluate_point(evaluate(self, x_values[i]), x_values, i, y)

safe_evaluate(self, x_values) == safe_evaluate_loop(self, x_values, 1, <<>>)

\* mutant: the difference is compared without numpy.abs
high_curvatureSigned(y, tol) ==
    {i \in 1..(Len(y) - 1) :
        /\ ~y[i].nan /\ ~y[i + 1].nan
        /\ RatLt(tol, RatSub(y[i + 1].val, y[i].val))}

\* numpy.where(numpy.abs(numpy.diff(y)) > tolerance)[0], 1-based
high_curvature(y, tol) ==
    {i \in 1..(Len(y) - 1) :
        /\ ~y[i].nan /\ ~y[i + 1].nan
        /\ RatLt(tol, RatAbs(RatSub(y[i + 1].val, y[i].val)))}

Min(a, b) == IF a < b THEN a ELSE b
Max(a, b) == IF a > b THEN a ELSE b

\* the outcome of a sampling pass: an exception that escaped, or x and y
Escaped(r) ==
    [self |-> r.self, exc |-> r.exc, msg |-> r.msg, x |-> <<>>, y |-> <<>>]
Sampled(r, x) ==
    IF r.exc # "" THEN Escaped(r)
    ELSE [self |-> r.self, exc |-> "", msg |-> "", x |-> x, y |-> r.y]

\* the second pass: x is the first grid with the points of the refined
\* intervals, y its values
refine_pass(self, x) == Sampled(safe_evaluate(self, x), x)

\* the refinement of the first grid x0 whose values are first.y
refine(x0, first, tol) ==
    IF first.exc # "" THEN Escaped(first)
    ELSE refine_pass(first.self,
                     SortedSeq(Range(x0) \cup
                               UNION {Range(linspace(x0[i], x0[i + 1], 10)) :
                                         i \in high_curvature(first.y, tol)}))

first_pass(self, x0, tol) == refine(x0, safe_evaluate(self, x0), tol)

\* mutant: the initial grid is not united with the points to include
adaptive_samplingGridOnly(self, x_min, x_max, num_points, must_points, tol) ==
    first_pass(self,
               SortedSeq(Range(linspace(Int2Rat(Min(x_min, -100)), Int2Rat(Max(x_max, 100)),
                                        num_points))),
               tol)

\* mutant: 0 is appended to the list the caller passed
copy_appendAliased(must_points) ==
    [caller |-> Append(must_points, Zero), local |-> Append(must_points, Zero)]

\* helpers.py lines 35-36: the parameter is rebound to a copy of the list it
\* was called with, and 0 is appended to the copy.  caller is the list object
\* of the caller (or the default list of the parameter) after these lines,
\* local the list the function goes on with.
copy_append(must_points) ==
    [caller |-> must_points, local |-> Append(must_points, Zero)]

\* adaptive_sampling(func, x_min, x_max, num_points, must_evaluate_points, tolerance)
adaptive_sampling(self, x_min, x_max, num_points, must_points, tol) ==
    first_pass(self,
               union1d(linspace(Int2Rat(Min(x_min, -100)), Int2Rat(Max(x_max, 100)),
                                num_points),
                       copy_append(must_points).local),
               tol)

(***************************************************************************)
(* src/ui/Runnables.py: PlotWorker.  A worker is the record of its         *)
(* attributes; run is a function of them, since the worker shares nothing  *)
(* with the main thread but the signals it emits.  None for x1, y1, x2, y2 *)
(* is the empty sequence (a sampled grid holds 0 and is never empty).      *)
(***************************************************************************)
PlotWorker(f1, f2, lim, intersection_points) ==
    [kind |-> "PlotWorker", f1_str |-> f1, f2_str |-> f2, xlim |-> lim,
     intersection_points |-> intersection_points]

\* int(v) of Python: truncation toward zero
int(v) == IF v[1] >= 0 THEN v[1] \div v[2] ELSE -((-v[1]) \div v[2])

RatMax(a, b) == IF RatLt(a, b) THEN b ELSE a

\* max(map(abs, points)), max(points), min(points), numpy.mean(points) of a
\* non-empty list
MaxAbsOf(points) ==
    CHOOSE m \in {RatAbs(p) : p \in Range(points)} : \A p \in Range(points) : RatLe(RatAbs(p), m)
MaxOf(points) == CHOOSE m \in Range(points) : \A p \in Range(points) : RatLe(p, m)
MinOf(points) == CHOOSE m \in Range(points) : \A p \in Range(points) : RatLe(m, p)
RECURSIVE RatSum(_)
RatSum(points) == IF points = <<>> THEN Zero ELSE RatAdd(Head(points), RatSum(Tail(points)))
MeanOf(points) == RatDiv(RatSum(points), Int2Rat(Len(points)))

\* lines 44-48
x_scale_max_limit(w) ==
    IF w.intersection_points # <<>>
    THEN int(RatMax(RatAdd(MaxAbsOf(w.intersection_points), Int2Rat(100)),
                    Int2Rat(int(RatMax(RatAbs(w.xlim[1]), RatAbs(w.xlim[2]))))))
    ELSE int(RatMax(RatAbs(w.xlim[1]), RatAbs(w.xlim[2])))

\* line 52, with the number of grid points capped at MaxPoints
num_points_of(w) == Min(MaxPoints, 500 * (x_scale_max_limit(w) - (-x_scale_max_limit(w))))

\* lines 66-71: plot_data["xlim"]
x_spread(points) ==
    RatMax(RatAbs(RatSub(MaxOf(points), MeanOf(points))),
           RatAbs(RatSub(MinOf(points), MeanOf(points))))
plot_xlim(w) ==
    IF w.intersection_points # <<>>
    THEN <<Int2Rat(int(RatSub(MeanOf(w.intersection_points),
                              RatMax(RatMul(x_spread(w.intersection_points), Int2Rat(2)),
                                     Int2Rat(10))))),
           Int2Rat(int(RatAdd(MeanOf(w.intersection_points),
                              RatMax(RatMul(x_spread(w.intersection_points), Int2Rat(2)),
                                     Int2Rat(10)))))>>
    ELSE w.xlim

\* what one of the two try blocks leaves: the exception it caught (class exc,
\* str(e) msg), the evaluator it bound (only f1's is kept by run) and x, y
NoEvaluator == [none |-> TRUE, self |-> Evaluator(NumberLiteral(Zero))]
Bound(self) == [none |-> FALSE, self |-> self]
Side(exc, msg, f_evaluator, x, y) ==
    [exc |-> exc, msg |-> msg, f_evaluator |-> f_evaluator, x |-> x, y |-> y]

\* lines 79-87 (95-105): sampling, then the assignments to plot_data
sample_side(w, ast, r) ==
    IF r.exc # "" THEN Side(r.exc, r.msg, Bound(Evaluator(ast)), <<>>, <<>>)
    ELSE Side("", "", Bound(Evaluator(ast)), r.x, r.y)

\* lines 73-89 (91-107): one function of the worker
run_side(w, f_str) ==
    IF f_str = <<>> THEN Side("", "", NoEvaluator, <<>>, <<>>)
    ELSE IF Lexer(f_str).err # ""
    THEN Side("LexerError", Lexer(f_str).err, NoEvaluator, <<>>, <<>>)
    ELSE IF parse_expression(f_str).err # ""
    THEN Side("ParserError", parse_expression(f_str).err, NoEvaluator, <<>>, <<>>)
    ELSE sample_side(w, parse_expression(f_str).node,
                     adaptive_sampling(Evaluator(parse_expression(f_str).node),
                                       -x_scale_max_limit(w), x_scale_max_limit(w),
                                       num_points_of(w), w.intersection_points, tolerance))

\* signals: error.emit((e, input)) and finished.emit((plot_data,
\* intersection_points, f1_evaluator))
PlotError(side, input) ==
    [sender |-> "PlotWorker", signal |-> "error", exc |-> side.exc, msg |-> side.msg,
     input |-> input]
PlotData(w, s1, s2) ==
    [x1 |-> s1.x, y1 |-> s1.y, x2 |-> s2.x, y2 |-> s2.y, xlim |-> plot_xlim(w)]
PlotFinished(w, s1, s2) ==
    [sender |-> "PlotWorker", signal |-> "finished", plot_data |-> PlotData(w, s1, s2),
     intersection_points |-> w.intersection_points, f1_evaluator |-> s1.f_evaluator]

\* mutant: an error in f1 ends the run
run_signalsStopAtF1(w, s1, s2) ==
    IF s1.exc # "" THEN <<PlotError(s1, "f1")>>
    ELSE (IF s2.exc # "" THEN <<PlotError(s2, "f2")>> ELSE <<>>)
         \o <<PlotFinished(w, s1, s2)>>

\* the signals PlotWorker.run emits, in order, when its two blocks leave s1, s2
run_signals(w, s1, s2) ==
    (IF s1.exc # "" THEN <<PlotError(s1, "f1")>> ELSE <<>>)
    \o (IF s2.exc # "" THEN <<PlotError(s2, "f2")>> ELSE <<>>)
    \o <<PlotFinished(w, s1, s2)>>

\* PlotWorker.run
PlotWorker_run(w) == run_signals(w, run_side(w, w.f1_str), run_side(w, w.f2_str))

\* SolverWorker: attributes, and the finished signal of its run
SolverWorker(f1, f2) == [kind |-> "SolverWorker", f1_str |-> f1, f2_str |-> f2]
SolverFinished(intersection_points, is_same) ==
    [sender |-> "SolverWorker", signal |-> "finished",
     intersection_points |-> intersection_points, is_same |-> is_same]

(***************************************************************************)
(* src/ui/plotter.py: FunctionsSolver, the main window                     *)
(***************************************************************************)
\* str.strip()
RECURSIVE lstrip(_)
lstrip(text) ==
    IF text # <<>> /\ isspace(Head(text)) THEN lstrip(Tail(text)) ELSE text
RECURSIVE rstrip(_)
rstrip(text) ==
    IF text # <<>> /\ isspace(text[Len(text)]) THEN rstrip(SubSeq(text, 1, Len(text) - 1))
    ELSE text
strip(text) == rstrip(lstrip(text))

\* mutant: the text is parsed, not only tokenized
validate_functionParsed(text) ==
    IF parse_expression(strip(text)).err = "" THEN [valid |-> TRUE, label |-> ""]
    ELSE [valid |-> FALSE, label |-> parse_expression(strip(text)).err]

\* validate_function: the flag and the label text it sets for a field whose
\* text is text
validate_function(text) ==
    IF Lexer(strip(text)).err = "" THEN [valid |-> TRUE, label |-> ""]
    ELSE [valid |-> FALSE, label |-> Lexer(strip(text)).err]

\* eventFilter: TRUE when the key press is kept from the field.  key is a
\* character or "Backspace"; presses with the Control modifier are Paste.
eventFilter(valid, key) == ~valid /\ key # "Backspace"

\* the input fields, the colour buttons and the QPushButton children
Widgets ==
    {"f1_input", "f2_input", "f1_color_button", "f2_color_button",
     "solve_button", "plot_button"}

\* mutant: the push buttons are left as they are
disable_inputsFieldsOnly ==
    [w \in Widgets |-> IF w \in {"solve_button", "plot_button"} THEN enabled[w] ELSE FALSE]

\* mutant: the push buttons are left as they are
enable_inputsFieldsOnly ==
    [w \in Widgets |-> IF w \in {"solve_button", "plot_button"} THEN enabled[w] ELSE TRUE]

\* disable_inputs, enable_inputs: the widgets' enabled state they leave
disable_inputs == [w \in Widgets |-> FALSE]
enable_inputs == [w \in Widgets |-> TRUE]

\* on_plot_error: the text of the label of the function the error is tagged with
on_plot_error_label(e, label) ==
    IF e.exc = "UnknownFunctionError" THEN e.msg
    ELSE IF e.exc = "ParserError" THEN "Invalid Expression"
    ELSE label

\* some evaluation of the tree at one of the points raises
RaisesAt(ast, points) == \E i \in 1..Len(points) : Walk(ast, points[i]).exc # ""

\* update_intersection_display raises: it evaluates f1 at every point
\* when the functions are not the same
display_raises(text, e) ==
    /\ ~e.is_same
    /\ e.intersection_points # <<>>
    /\ \/ parse_expression(strip(text)).err # ""
       \/ RaisesAt(parse_expression(strip(text)).node, e.intersection_points)

\* PlotManager.update_plot raises: it evaluates f1_evaluator at every point
update_plot_raises(e) ==
    /\ e.intersection_points # <<>>
    /\ ~e.f1_evaluator.none
    /\ RaisesAt(e.f1_evaluator.self.ast, e.intersection_points)

(***************************************************************************)
(* src/calc/ast/ast.py: __repr__ of the node classes.  A rendering is a    *)
(* sequence of characters, as the Lexer reads it.                          *)
(***************************************************************************)
DigitChar(n) ==
    CASE n = 0 -> "0" [] n = 1 -> "1" [] n = 2 -> "2" [] n = 3 -> "3" [] n = 4 -> "4"
      [] n = 5 -> "5" [] n = 6 -> "6" [] n = 7 -> "7" [] n = 8 -> "8" [] n = 9 -> "9"

\* str(n) of an int n >= 0
RECURSIVE IntChars(_)
IntChars(n) == IF n < 10 THEN <<DigitChar(n)>> ELSE Append(IntChars(n \div 10), DigitChar(n % 10))

\* the least k with 10^k * value an integer (value a finite decimal)
RECURSIVE DecimalPlaces(_, _)
DecimalPlaces(value, k) ==
    IF (value[1] * IntPow(10, k)) % value[2] = 0 THEN k ELSE DecimalPlaces(value, k + 1)

Zeros(n) == [i \in 1..n |-> "0"]
DropZeros(q) == SubSeq(q, 1, CHOOSE e \in 0..Len(q) :
                                /\ e = 0 \/ q[e] # "0"
                                /\ \A j \in (e + 1)..Len(q) : q[j] = "0")

\* repr of a float value >= 0 with k > 0 decimal places whose digits are ds:
\* positional from 0.0001 on, with an exponent below
FloatChars(ds, k) ==
    IF Len(ds) + 4 > k
    THEN IF Len(ds) > k
         THEN SubSeq(ds, 1, Len(ds) - k) \o <<".">> \o SubSeq(ds, Len(ds) - k + 1, Len(ds))
         ELSE <<"0", ".">> \o Zeros(k - Len(ds)) \o ds
    ELSE <<ds[1]>>
         \o (IF DropZeros(Tail(ds)) = <<>> THEN <<>> ELSE <<".">> \o DropZeros(Tail(ds)))
         \o <<"e", "-">>
         \o (IF k - Len(ds) + 1 < 10 THEN <<"0">> ELSE <<>>) \o IntChars(k - Len(ds) + 1)

\* f"{self.value}" of a NumberLiteral
NumberChars(value) ==
    IF value[2] = 1 THEN IntChars(value[1])
    ELSE FloatChars(IntChars((value[1] * IntPow(10, DecimalPlaces(value, 0))) \div value[2]),
                    DecimalPlaces(value, 0))

\* the characters of the strings that occur in trees
StrChars(s) ==
    CASE s = "sin" -> <<"s", "i", "n">>
      [] s = "cos" -> <<"c", "o", "s">>
      [] s = "sqrt" -> <<"s", "q", "r", "t">>
      [] s = "log10" -> <<"l", "o", "g", "1", "0">>
      [] s = "foo" -> <<"f", "o", "o">>
      [] OTHER -> <<s>>

RECURSIVE repr(_)
repr(node) ==
    CASE node[1] = "NumberLiteral" -> NumberChars(node[2])
      [] node[1] = "Variable" -> StrChars(node[2])
      [] node[1] = "PrefixExpression" -> StrChars(node[2]) \o repr(node[3])
      [] node[1] = "InfixExpression" -> repr(node[2]) \o StrChars(node[3]) \o repr(node[4])
      [] node[1] = "FunctionCall" -> StrChars(node[2]) \o <<"(">> \o repr(node[3]) \o <<")">>

(***************************************************************************)
(* src/calc/ast/ast.py: to_sympy_expr, src/calc/parser/ParserError.py      *)
(* The result of a conversion is [exc, msg, expr]: the exception raised    *)
(* and str() of it, or the symbolic expression as the term of the backend  *)
(* constructors applied (the backend's own rewriting of the term is not    *)
(* part of the repository).                                                *)
(***************************************************************************)
Converted(expr) == [exc |-> "", msg |-> "", expr |-> expr]
Raised(exc, msg) == [exc |-> exc, msg |-> msg, expr |-> <<>>]

\* the expression ParserError(*args): __init__(self, message) takes one
\* argument beside self, and a call with two raises TypeError in its place
NewParserError(args) ==
    IF Len(args) = 1
    THEN Raised("ParserError", "ParserError: " \o args[1])
    ELSE Raised("TypeError",
                "ParserError.__init__() takes 2 positional arguments but 3 were given")

\* ctor(a), ctor(a, b): the arguments are converted left to right and the
\* first exception leaves the call
Sym1(ctor, a) == IF a.exc # "" THEN a ELSE Converted(<<ctor, a.expr>>)
Sym2(ctor, a, b) ==
    IF a.exc # "" THEN a
    ELSE IF b.exc # "" THEN b
    ELSE Converted(<<ctor, a.expr, b.expr>>)

SymNumber(v) == Converted(<<"Number", v>>)

RECURSIVE to_sympy_expr(_)
to_sympy_expr(node) ==
    CASE node[1] = "NumberLiteral" -> SymNumber(node[2])
      [] node[1] = "Variable" -> Converted(<<"Symbol", "x">>)
      [] node[1] = "PrefixExpression" ->
            IF node[2] = "-"
            THEN Sym2("Mul", to_sympy_expr(node[3]), SymNumber(Int2Rat(-1)))
            ELSE NewParserError(<<"Not a valid prefix operator">>)
      [] node[1] = "InfixExpression" ->
            CASE node[3] = "+" -> Sym2("Add", to_sympy_expr(node[2]), to_sympy_expr(node[4]))
              [] node[3] = "-" ->
                    Sym2("Add", to_sympy_expr(node[2]),
                         Sym2("Mul", to_sympy_expr(node[4]), SymNumber(Int2Rat(-1))))
              [] node[3] = "*" -> Sym2("Mul", to_sympy_expr(node[2]), to_sympy_expr(node[4]))
              [] node[3] = "/" ->
                    Sym2("Mul", to_sympy_expr(node[2]),
                         Sym2("Pow", to_sympy_expr(node[4]), SymNumber(Int2Rat(-1))))
              [] node[3] = "^" -> Sym2("Pow", to_sympy_expr(node[2]), to_sympy_expr(node[4]))
              [] OTHER -> NewParserError(<<"Not a valid infix operator">>)
      [] node[1] = "FunctionCall" ->
            CASE node[2] = "sqrt" -> Sym1("sqrt", to_sympy_expr(node[3]))
              [] node[2] = "log10" ->
                    Sym2("log", to_sympy_expr(node[3]), SymNumber(Int2Rat(10)))
              [] node[2] = "sin" -> Sym1("sin", to_sympy_expr(node[3]))
              [] node[2] = "cos" -> Sym1("cos", to_sympy_expr(node[3]))
              [] OTHER -> NewParserError(<<"Not a valid function", "-1">>)

(***************************************************************************)
(* Inputs of the parser                                                    *)
(***************************************************************************)
NumTok(n) == Token("number", Int2Rat(n))
VarTok == Token("variable", "x")
OpTok(op) ==
    CASE op = "+" -> Token("plus", "+")
      [] op = "-" -> Token("minus", "-")
      [] op = "*" -> Token("asterisk", "*")
      [] op = "/" -> Token("slash", "/")
      [] op = "^" -> Token("exponent", "^")
LParenTok == Token("lparen", "(")
RParenTok == Token("rparen", ")")
DotTok == Token("dot", ".")
FunTok(name) == Token("function", name)

BinOps == {"+", "-", "*", "/", "^"}
OperandToks == {NumTok(1), NumTok(2), VarTok}

TokenAlphabet ==
    {NumTok(1), VarTok, LParenTok, RParenTok, DotTok, FunTok("sin")}
    \cup {OpTok(op) : op \in BinOps}

SeqsUpTo(S, n) == UNION {[1..k -> S] : k \in 0..n}

\* a op1 b op2 c
ThreeOperand ==
    {<<a, OpTok(o1), b, OpTok(o2), c>> :
        a \in OperandToks, b \in OperandToks, c \in OperandToks,
        o1 \in BinOps, o2 \in BinOps}

\* ( a op1 b ) op2 c
ParenThreeOperand ==
    {<<LParenTok, t[1], t[2], t[3], RParenTok, t[4], t[5]>> : t \in ThreeOperand}

\* a ^ b ^ ... with n operands
RECURSIVE ExpChainsOf(_)
ExpChainsOf(n) ==
    IF n = 1 THEN {<<a>> : a \in OperandToks}
    ELSE {<<a, OpTok("^")>> \o rest : a \in OperandToks, rest \in ExpChainsOf(n - 1)}

ExpChains == UNION {ExpChainsOf(n) : n \in 2..MaxChain}

\* a op1 + b op2 c   (a prefix plus in the middle of an expression)
InnerPrefixPlus ==
    {<<t[1], t[2], OpTok("+"), t[3], t[4], t[5]>> : t \in ThreeOperand}

\* ( ( a op b ) ),  sin ( a op ( b ) ),  a op ( ( b ) )
NestedParens ==
    UNION {{<<LParenTok, LParenTok, a, OpTok(o), b, RParenTok, RParenTok>>,
            <<FunTok("sin"), LParenTok, a, OpTok(o), LParenTok, b, RParenTok, RParenTok>>,
            <<a, OpTok(o), LParenTok, LParenTok, b, RParenTok, RParenTok>>} :
              a \in OperandToks, b \in OperandToks, o \in BinOps}

\* a op b op ... with n operands, the operators drawn from one level
RECURSIVE LevelChainsOf(_, _)
LevelChainsOf(ops, n) ==
    IF n = 1 THEN {<<a>> : a \in OperandToks}
    ELSE {rest \o <<OpTok(o), a>> :
            rest \in LevelChainsOf(ops, n - 1), o \in ops, a \in OperandToks}

LevelChains ==
    UNION {LevelChainsOf({"+", "-"}, n) \cup LevelChainsOf({"*", "/"}, n) : n \in 3..MaxChain}

ParserInputs ==
    SeqsUpTo(TokenAlphabet, MaxLen) \cup ThreeOperand \cup ParenThreeOperand
        \cup ExpChains \cup InnerPrefixPlus \cup NestedParens \cup LevelChains

(***************************************************************************)
(* The parsing client: parse_expression (helpers.py) on a token list       *)
(***************************************************************************)
Pending == [err |-> "pending", node |-> <<>>, cur |-> 0]
NoResult == Throw("none", "", 0)
Threads == {1, 2}

ParserIdle == tokens = <<>> /\ parsed = Pending /\ ppc = "off"
EvaluatorIdle == evaluator = Evaluator(NumberLiteral(Zero)) /\ log = <<>>
ThreadsIdle ==
    /\ tpc = [t \in Threads |-> "off"]
    /\ tbind = [t \in Threads |-> Zero]
    /\ treads = [t \in Threads |-> <<>>]
    /\ tres = [t \in Threads |-> NoResult]

NoCall == [x_min |-> 0, x_max |-> 0, num_points |-> 0]
NoSample == [exc |-> "none", msg |-> "", x |-> <<>>, y |-> <<>>]
SamplerIdle ==
    /\ call = NoCall
    /\ must_evaluate_points = <<>>
    /\ sampled = NoSample
    /\ spc = "off"

NotLexed == [err |-> "pending", pos |-> 0, tokens |-> <<>>]
LexerIdle == input_str = <<>> /\ lexed = NotLexed /\ lpc = "off"

NotEmitted == [emitted |-> FALSE, intersection_points |-> <<>>, is_same |-> FALSE]
SolverIdle ==
    /\ f1_str = <<>>
    /\ f2_str = <<>>
    /\ finished = NotEmitted
    /\ solutions = ""
    /\ wpc = "off"

\* FunctionsSolver.__init__ and PlotManager.setup_plot
AppIdle ==
    /\ f1_input = <<>>
    /\ f2_input = <<>>
    /\ f1_valid = TRUE
    /\ f2_valid = TRUE
    /\ f1_error_label = ""
    /\ f2_error_label = ""
    /\ enabled = [w \in Widgets |-> TRUE]
    /\ xlim = <<Int2Rat(-10), Int2Rat(10)>>
    /\ plot_worker = "None"
    /\ solver_worker = "None"
    /\ pool = <<>>
    /\ events = <<>>

NotConverted == Raised("none", "")
SymIdle == sym_ast = <<>> /\ converted = NotConverted /\ cpc = "off"

ScanIdle == curPosition = 0

Init ==
    /\ tokens \in ParserInputs
    /\ parsed = Pending
    /\ ppc = "ready"
    /\ EvaluatorIdle
    /\ ThreadsIdle
    /\ SamplerIdle
    /\ LexerIdle
    /\ SolverIdle
    /\ SymIdle
    /\ ScanIdle
    /\ AppIdle

Parse ==
    /\ ppc = "ready"
    /\ parsed' = parse(tokens)
    /\ ppc' = "done"
    /\ UNCHANGED <<tokens, evalVars, threadVars, samplerVars, lexerVars, solverVars,
                   symVars,
                   scanVars,
                   appVars>>

Next == Parse

Spec == Init /\ [][Next]_vars

(***************************************************************************)
(* Inputs of the evaluator                                                 *)
(***************************************************************************)
FunctionNames == {"sqrt", "log10", "sin", "cos", "foo"}
ArithOps == {"+", "-", "*", "/"}

LeafTrees == {NumberLiteral(Int2Rat(n)) : n \in 0..MaxLit} \cup {Variable("x")}

\* l op r; the exponent of '^' is a literal or the variable, hence an integer
InfixTrees(L, R) ==
    {InfixExpression(l, op, r) : l \in L, op \in ArithOps, r \in R}
    \cup {InfixExpression(l, "^", r) : l \in L, r \in R \cap LeafTrees}

SmallTrees ==
    LeafTrees
    \cup {PrefixExpression("-", a) : a \in LeafTrees}
    \cup InfixTrees(LeafTrees, LeafTrees)
    \cup {FunctionCall(f, a) : f \in FunctionNames, a \in LeafTrees}

EvalTrees ==
    SmallTrees
    \cup {PrefixExpression("-", t) : t \in SmallTrees}
    \cup InfixTrees(SmallTrees, LeafTrees)
    \cup InfixTrees(LeafTrees, SmallTrees)
    \cup {FunctionCall(f, t) : f \in FunctionNames, t \in SmallTrees}

Bindings == {Int2Rat(i) : i \in (-MaxBinding)..MaxBinding}

(***************************************************************************)
(* One client calling evaluate on one Evaluator, call after call           *)
(***************************************************************************)
InitEval ==
    /\ evaluator \in {Evaluator(t) : t \in EvalTrees}
    /\ log = <<>>
    /\ ParserIdle
    /\ ThreadsIdle
    /\ SamplerIdle
    /\ LexerIdle
    /\ SolverIdle
    /\ SymIdle
    /\ ScanIdle
    /\ AppIdle

Evaluate(v) ==
    /\ Len(log) < MaxCalls
    /\ LET r == evaluate(evaluator, v)
       IN  /\ evaluator' = r.self
           /\ log' = Append(log, [v |-> v, result |-> r.result])
    /\ UNCHANGED <<parserVars, threadVars, samplerVars, lexerVars, solverVars,
                   symVars,
                   scanVars,
                   appVars>>

NextEval == \E v \in Bindings : Evaluate(v)

SpecEval == InitEval /\ [][NextEval]_vars

(***************************************************************************)
(* Two threads calling evaluate on the same Evaluator.  A call stores its  *)
(* argument in self.variable_value and then walks the tree; each visit of  *)
(* a Variable node reads self.variable_value.  Stores and reads of the     *)
(* attribute are the atomic steps.                                         *)
(***************************************************************************)
ConcTrees ==
    {Variable("x"),
     InfixExpression(Variable("x"), "+", Variable("x")),
     InfixExpression(Variable("x"), "*", NumberLiteral(Int2Rat(2))),
     InfixExpression(NumberLiteral(Int2Rat(1)), "/", Variable("x")),
     FunctionCall("sqrt", Variable("x")),
     FunctionCall("log10", InfixExpression(Variable("x"), "*", Variable("x")))}

InitConc ==
    /\ evaluator \in {Evaluator(t) : t \in ConcTrees}
    /\ log = <<>>
    /\ tpc = [t \in Threads |-> "idle"]
    /\ tbind = [t \in Threads |-> Zero]
    /\ treads = [t \in Threads |-> <<>>]
    /\ tres = [t \in Threads |-> NoResult]
    /\ ParserIdle
    /\ SamplerIdle
    /\ LexerIdle
    /\ SolverIdle
    /\ SymIdle
    /\ ScanIdle
    /\ AppIdle

\* evaluator.py line 28: self.variable_value = variable_value
EvalStore(t, v) ==
    /\ tpc[t] = "idle"
    /\ evaluator' = [evaluator EXCEPT !.variable_value = v]
    /\ tbind' = [tbind EXCEPT ![t] = v]
    /\ treads' = [treads EXCEPT ![t] = <<>>]
    /\ tpc' = [tpc EXCEPT ![t] = "walk"]
    /\ UNCHANGED <<parserVars, samplerVars, log, tres, lexerVars, solverVars,
                   symVars,
                   scanVars,
                   appVars>>

\* evaluator.py line 73: return self.variable_value
EvalRead(t) ==
    /\ tpc[t] = "walk"
    /\ evaluate_expression(evaluator.ast, treads[t], 0).exc = "blocked"
    /\ treads' = [treads EXCEPT ![t] = Append(@, evaluator.variable_value)]
    /\ UNCHANGED <<parserVars, samplerVars, evalVars, tpc, tbind, tres, lexerVars, solverVars,
                   symVars,
                   scanVars,
                   appVars>>

\* evaluator.py line 29: the walk returns or raises
EvalReturn(t) ==
    /\ tpc[t] = "walk"
    /\ LET r == evaluate_expression(evaluator.ast, treads[t], 0)
       IN  /\ r.exc # "blocked"
           /\ tres' = [tres EXCEPT ![t] = r]
    /\ tpc' = [tpc EXCEPT ![t] = "done"]
    /\ UNCHANGED <<parserVars, samplerVars, evalVars, tbind, treads, lexerVars, solverVars,
                   symVars,
                   scanVars,
                   appVars>>

NextConc ==
    \E t \in Threads :
        \/ \E v \in Bindings : EvalStore(t, v)
        \/ EvalRead(t)
        \/ EvalReturn(t)

SpecConc == InitConc /\ [][NextConc]_vars

(***************************************************************************)
(* One client calling adaptive_sampling                                    *)
(***************************************************************************)
SampleTrees ==
    {Variable("x"),
     NumberLiteral(Int2Rat(1)),
     InfixExpression(Variable("x"), "*", Variable("x")),
     InfixExpression(NumberLiteral(Int2Rat(1)), "/", Variable("x")),
     FunctionCall("sqrt", Variable("x")),
     FunctionCall("foo", Variable("x"))}

MustValues == {Int2Rat(-150), Int2Rat(-1), Zero, Int2Rat(7), Int2Rat(150)}

InitSample ==
    /\ evaluator \in {Evaluator(t) : t \in SampleTrees}
    /\ call \in [x_min : {-200, -10}, x_max : {10, 200}, num_points : 1..MaxPoints]
    /\ must_evaluate_points \in SeqsUpTo(MustValues, MaxMust)
    /\ sampled = NoSample
    /\ spc = "ready"
    /\ log = <<>>
    /\ ParserIdle
    /\ ThreadsIdle
    /\ LexerIdle
    /\ SolverIdle
    /\ SymIdle
    /\ ScanIdle
    /\ AppIdle

Sample ==
    /\ spc = "ready"
    /\ \E r \in {adaptive_sampling(evaluator, call.x_min, call.x_max, call.num_points,
                                    must_evaluate_points, tolerance)} :
           /\ evaluator' = r.self
           /\ sampled' = [exc |-> r.exc, msg |-> r.msg, x |-> r.x, y |-> r.y]
    /\ must_evaluate_points' = copy_append(must_evaluate_points).caller
    /\ spc' = "done"
    /\ UNCHANGED <<parserVars, threadVars, log, call, lexerVars, solverVars,
                   symVars,
                   scanVars,
                   appVars>>

\* the same call once more, with the same list object
SampleAgain ==
    /\ spc = "done"
    /\ \E r \in {adaptive_sampling(evaluator, call.x_min, call.x_max, call.num_points,
                                    must_evaluate_points, tolerance)} :
           /\ evaluator' = r.self
           /\ sampled' = [exc |-> r.exc, msg |-> r.msg, x |-> r.x, y |-> r.y]
    /\ must_evaluate_points' = copy_append(must_evaluate_points).caller
    /\ spc' = "again"
    /\ UNCHANGED <<parserVars, threadVars, log, call, lexerVars, solverVars,
                   symVars,
                   scanVars,
                   appVars>>

NextSample == Sample \/ SampleAgain

SpecSample == InitSample /\ [][NextSample]_vars

(***************************************************************************)
(* One client constructing Lexer(input_str)                                *)
(***************************************************************************)
TextAlphabet == {"x", "e", "1", ".", " ", "+", ","}

InitLex ==
    /\ input_str \in SeqsUpTo(TextAlphabet, MaxText)
    /\ lexed = NotLexed
    /\ lpc = "ready"
    /\ ParserIdle
    /\ EvaluatorIdle
    /\ ThreadsIdle
    /\ SamplerIdle
    /\ SolverIdle
    /\ SymIdle
    /\ ScanIdle
    /\ AppIdle

Lex ==
    /\ lpc = "ready"
    /\ lexed' = Lexer(input_str)
    /\ lpc' = "done"
    /\ UNCHANGED <<input_str, parserVars, evalVars, threadVars, samplerVars, solverVars,
                   symVars,
                   scanVars,
                   appVars>>

NextLex == Lex

SpecLex == InitLex /\ [][NextLex]_vars

(***************************************************************************)
(* A solve request: SolverWorker.run (ui/Runnables.py) calls solve and     *)
(* emits finished; FunctionsSolver.on_solve_complete (ui/plotter.py) shows *)
(* the result.  solve (calc/solver/solver.py) lexes and parses both texts, *)
(* raising their LexerError or ParserError, and otherwise returns what the *)
(* symbolic backend finds, which is any of SolveResults here.              *)
(***************************************************************************)
SolveFailed(err) == [exc |-> err, roots |-> <<>>, identical |-> FALSE]
SolveResult(roots, identical) == [exc |-> "", roots |-> roots, identical |-> identical]

SolveResults ==
    {SolveResult(<<>>, FALSE), SolveResult(<<Int2Rat(1)>>, FALSE), SolveResult(<<>>, TRUE)}

\* x solves expr1 = expr2: both sides have a value at x, the same one
IsRoot(expr1, expr2, x) ==
    /\ Walk(expr1, x).exc = ""
    /\ Walk(expr2, x).exc = ""
    /\ Walk(expr1, x).val = Walk(expr2, x).val

\* the outcomes solve(f1, f2) can have: the roots reported are real solutions
\* of the equation
solve(f1, f2) ==
    IF parse_expression(f1).err # "" THEN {SolveFailed(parse_expression(f1).err)}
    ELSE IF parse_expression(f2).err # "" THEN {SolveFailed(parse_expression(f2).err)}
    ELSE IF parse_expression(f1).node = parse_expression(f2).node
    THEN {SolveResult(<<>>, TRUE)}
    ELSE {r \in SolveResults :
             \A i \in 1..Len(r.roots) :
                IsRoot(parse_expression(f1).node, parse_expression(f2).node, r.roots[i])}

Emitted(intersection_points, is_same) ==
    [emitted |-> TRUE, intersection_points |-> intersection_points, is_same |-> is_same]

SolveTexts ==
    {<<"x">>, <<"1">>, <<"x", "+", "1">>, <<"1", "x">>,
     <<"1", "+">>, <<"e">>, <<"1", ",">>}

InitSolve ==
    /\ f1_str \in SolveTexts
    /\ f2_str \in SolveTexts
    /\ finished = NotEmitted
    /\ solutions = ""
    /\ wpc = "ready"
    /\ ParserIdle
    /\ EvaluatorIdle
    /\ ThreadsIdle
    /\ SamplerIdle
    /\ LexerIdle
    /\ SymIdle
    /\ ScanIdle
    /\ AppIdle

\* SolverWorker.run
SolverWorkerRun ==
    /\ wpc = "ready"
    /\ \E r \in solve(f1_str, f2_str) :
          finished' = IF r.exc # "" THEN Emitted(<<>>, FALSE)
                      ELSE Emitted(r.roots, r.identical)
    /\ wpc' = "emitted"
    /\ UNCHANGED <<f1_str, f2_str, solutions, parserVars, evalVars, threadVars,
                   samplerVars, lexerVars,
                   symVars,
                   scanVars,
                   appVars>>

\* FunctionsSolver.on_solve_complete, update_intersection_display
on_solve_complete ==
    /\ wpc = "emitted"
    /\ solutions' = IF finished.is_same THEN "The functions are the same."
                    ELSE IF finished.intersection_points # <<>> THEN "Solutions"
                    ELSE "No intersection points found"
    /\ wpc' = "shown"
    /\ UNCHANGED <<f1_str, f2_str, finished, parserVars, evalVars, threadVars,
                   samplerVars, lexerVars,
                   symVars,
                   scanVars,
                   appVars>>

NextSolve == SolverWorkerRun \/ on_solve_complete

SpecSolve == InitSolve /\ [][NextSolve]_vars

(***************************************************************************)
(* One client converting one tree, as solve does with each of its inputs   *)
(***************************************************************************)
SymTrees == EvalTrees \cup {PrefixExpression("+", a) : a \in LeafTrees}

InitSym ==
    /\ sym_ast \in SymTrees
    /\ converted = NotConverted
    /\ cpc = "ready"
    /\ ParserIdle
    /\ EvaluatorIdle
    /\ ThreadsIdle
    /\ SamplerIdle
    /\ LexerIdle
    /\ SolverIdle
    /\ ScanIdle
    /\ AppIdle

ToSympy ==
    /\ cpc = "ready"
    /\ converted' = to_sympy_expr(sym_ast)
    /\ cpc' = "done"
    /\ UNCHANGED <<sym_ast, parserVars, evalVars, threadVars, samplerVars, lexerVars,
                   solverVars,
                   scanVars,
                   appVars>>

NextSym == ToSympy

SpecSym == InitSym /\ [][NextSym]_vars

(***************************************************************************)
(* Lexer.lex step by step: one step per iteration of its main loop, the    *)
(* sub-scan that the iteration calls included.  While the loop runs lexed  *)
(* holds self.tokens; it ends by returning them or by raising LexerError.  *)
(***************************************************************************)
Scanning(toks) == [err |-> "running", pos |-> 0, tokens |-> toks]

InitScan ==
    /\ input_str \in SeqsUpTo(TextAlphabet, MaxText)
    /\ lexed = Scanning(<<>>)
    /\ lpc = "lex"
    /\ curPosition = 0
    /\ ParserIdle
    /\ EvaluatorIdle
    /\ ThreadsIdle
    /\ SamplerIdle
    /\ SolverIdle
    /\ SymIdle
    /\ AppIdle

\* mutant: the number case lacks its `continue`, so that the cursor is
\* advanced once more after read_number
lex_caseNoContinue(text, variable, cur) ==
    LET char == text[cur + 1]
    IN  IF char = variable THEN LexOk(Token("variable", "x"), cur + 1)
        ELSE IF isdigit(char)
        THEN IF read_number(text, cur).err # "" THEN read_number(text, cur)
             ELSE LexOk(read_number(text, cur).token, read_number(text, cur).cur + 1)
        ELSE IF isspace(char) THEN LexOk(Token("none", ""), ignoreWhitespaces(text, cur))
        ELSE IF char \in {"-", "+", "*", "/", "^", "(", ")"}
        THEN LexOk(Token(SingleCharTypes[char], char), cur + 1)
        ELSE IF isalpha(char) THEN read_function(text, cur)
        ELSE IF char = "." THEN LexOk(Token("dot", char), cur + 1)
        ELSE LexerError("Invalid character", cur + 1)

\* what the case of the character at the cursor does: [err, pos, token, cur],
\* token type "none" when the case appends nothing
lex_case(text, variable, cur) ==
    LET char == text[cur + 1]
    IN  IF char = variable THEN LexOk(Token("variable", "x"), cur + 1)
        ELSE IF isdigit(char) THEN read_number(text, cur)
        ELSE IF isspace(char) THEN LexOk(Token("none", ""), ignoreWhitespaces(text, cur))
        ELSE IF char \in {"-", "+", "*", "/", "^", "(", ")"}
        THEN LexOk(Token(SingleCharTypes[char], char), cur + 1)
        ELSE IF isalpha(char) THEN read_function(text, cur)
        ELSE IF char = "." THEN LexOk(Token("dot", char), cur + 1)
        ELSE LexerError("Invalid character", cur + 1)

\* one iteration of `while self.curPosition < len(self.text)`
LexIteration ==
    /\ lpc = "lex"
    /\ curPosition < Len(input_str)
    /\ \E c \in {lex_case(input_str, "x", curPosition)} :
          /\ curPosition' = c.cur
          /\ IF c.err # ""
             THEN /\ lexed' = [err |-> c.err, pos |-> c.pos, tokens |-> <<>>]
                  /\ lpc' = "done"
             ELSE /\ lexed' = Scanning(IF c.token.type = "none" THEN lexed.tokens
                                       ELSE Append(lexed.tokens, c.token))
                  /\ UNCHANGED lpc
    /\ UNCHANGED <<input_str, parserVars, evalVars, threadVars, samplerVars,
                   solverVars, symVars,
                   appVars>>

\* the loop condition fails: lex, and with it Lexer(text), returns
LexReturn ==
    /\ lpc = "lex"
    /\ curPosition >= Len(input_str)
    /\ lexed' = [err |-> "", pos |-> 0, tokens |-> lexed.tokens]
    /\ lpc' = "done"
    /\ UNCHANGED <<input_str, curPosition, parserVars, evalVars, threadVars, samplerVars,
                   solverVars, symVars,
                   appVars>>

NextScan == LexIteration \/ LexReturn

SpecScan == InitScan /\ [][NextScan]_vars

(***************************************************************************)
(* The application: the main thread runs one handler at a time (an edit, a *)
(* click, the slot of a queued signal); a worker started on the thread     *)
(* pool runs at any later moment and its signals reach the main thread in  *)
(* the order it emitted them.                                              *)
(***************************************************************************)
MaxField == 1        \* a key adds a character to a text shorter than MaxField
KeyChars == {"x", "1", ",", " "}
PasteTexts == {<<"e", "(", "x", ")">>, <<"1", "+">>, <<"x", ",">>, <<"x", "x">>}
Views == {<<Int2Rat(-10), Int2Rat(10)>>, <<Rat(-1, 2), Rat(1, 2)>>}

InitApp ==
    /\ AppIdle
    /\ ParserIdle
    /\ EvaluatorIdle
    /\ ThreadsIdle
    /\ SamplerIdle
    /\ LexerIdle
    /\ SolverIdle
    /\ SymIdle
    /\ ScanIdle

otherVars ==
    <<parserVars, evalVars, threadVars, samplerVars, lexerVars, solverVars, symVars,
      scanVars>>

TextOf(field) == IF field = "f1_input" THEN f1_input ELSE f2_input
ValidOf(field) == IF field = "f1_input" THEN f1_valid ELSE f2_valid

\* the text of a field becomes text: textChanged runs
\* validate_function(field, the label of the field)
SetText(field, text) ==
    /\ text # TextOf(field)
    /\ f1_input' = (IF field = "f1_input" THEN text ELSE f1_input)
    /\ f2_input' = (IF field = "f2_input" THEN text ELSE f2_input)
    /\ f1_valid' = (IF field = "f1_input" THEN validate_function(text).valid ELSE f1_valid)
    /\ f2_valid' = (IF field = "f2_input" THEN validate_function(text).valid ELSE f2_valid)
    /\ f1_error_label' = (IF field = "f1_input" THEN validate_function(text).label
                          ELSE f1_error_label)
    /\ f2_error_label' = (IF field = "f2_input" THEN validate_function(text).label
                          ELSE f2_error_label)
    /\ UNCHANGED <<enabled, xlim, plot_worker, solver_worker, pool, events, otherVars>>

\* a character key pressed in a field, at the end of its text
KeyPress ==
    \E field \in {"f1_input", "f2_input"}, key \in KeyChars :
       /\ enabled[field]
       /\ ~eventFilter(ValidOf(field), key)
       /\ Len(TextOf(field)) < MaxField
       /\ SetText(field, Append(TextOf(field), key))

\* Backspace pressed in a field
Backspace ==
    \E field \in {"f1_input", "f2_input"} :
       /\ enabled[field]
       /\ ~eventFilter(ValidOf(field), "Backspace")
       /\ TextOf(field) # <<>>
       /\ SetText(field, SubSeq(TextOf(field), 1, Len(TextOf(field)) - 1))

\* a text pasted over the selected whole text of a field (Ctrl+A, Ctrl+V)
Paste ==
    \E field \in {"f1_input", "f2_input"}, text \in PasteTexts :
       /\ enabled[field]
       /\ SetText(field, text)

\* PlotManager.on_scroll: the wheel zooms the axes
Scroll ==
    /\ \E v \in Views : v # xlim /\ xlim' = v
    /\ UNCHANGED <<f1_input, f2_input, f1_valid, f2_valid, f1_error_label, f2_error_label,
                   enabled, plot_worker, solver_worker, pool, events, otherVars>>

EmptyLabel(f_str, label) == IF f_str = <<>> THEN "Empty Function" ELSE label

\* plot_functions(intersection_points)
plot_functions(intersection_points) ==
    /\ f1_error_label' = EmptyLabel(strip(f1_input), f1_error_label)
    /\ f2_error_label' = EmptyLabel(strip(f2_input), f2_error_label)
    /\ enabled' = disable_inputs
    /\ plot_worker' = "PlotWorker"
    /\ pool' = Append(pool, PlotWorker(strip(f1_input), strip(f2_input), xlim,
                                       intersection_points))

\* the Plot button clicked: plot_functions(), delete_solutions()
ClickPlot ==
    /\ enabled["plot_button"]
    /\ plot_functions(<<>>)
    /\ UNCHANGED <<f1_input, f2_input, f1_valid, f2_valid, xlim, solver_worker, events,
                   otherVars>>

\* the Solve and plot button clicked: solve_plot_functions()
ClickSolve ==
    /\ enabled["solve_button"]
    /\ IF strip(f1_input) = <<>> \/ strip(f2_input) = <<>>
       THEN /\ plot_functions(<<>>)
            /\ UNCHANGED solver_worker
       ELSE /\ enabled' = disable_inputs
            /\ solver_worker' = "SolverWorker"
            /\ pool' = Append(pool, SolverWorker(strip(f1_input), strip(f2_input)))
            /\ UNCHANGED <<f1_error_label, f2_error_label, plot_worker>>
    /\ UNCHANGED <<f1_input, f2_input, f1_valid, f2_valid, xlim, events, otherVars>>

\* the thread pool runs a PlotWorker
RunPlotWorker ==
    /\ pool # <<>>
    /\ Head(pool).kind = "PlotWorker"
    /\ pool' = Tail(pool)
    /\ events' = events \o PlotWorker_run(Head(pool))
    /\ UNCHANGED <<f1_input, f2_input, f1_valid, f2_valid, f1_error_label, f2_error_label,
                   enabled, xlim, plot_worker, solver_worker, otherVars>>

\* the thread pool runs a SolverWorker (SolverWorker.run)
RunSolverWorker ==
    /\ pool # <<>>
    /\ Head(pool).kind = "SolverWorker"
    /\ pool' = Tail(pool)
    /\ \E r \in solve(Head(pool).f1_str, Head(pool).f2_str) :
          events' = Append(events, IF r.exc # "" THEN SolverFinished(<<>>, FALSE)
                                   ELSE SolverFinished(r.roots, r.identical))
    /\ UNCHANGED <<f1_input, f2_input, f1_valid, f2_valid, f1_error_label, f2_error_label,
                   enabled, xlim, plot_worker, solver_worker, otherVars>>

Delivered(sender, signal) ==
    /\ events # <<>>
    /\ Head(events).sender = sender
    /\ Head(events).signal = signal
    /\ events' = Tail(events)

\* PlotSignals.error delivered: on_plot_error
DeliverPlotError ==
    /\ Delivered("PlotWorker", "error")
    /\ f1_error_label' = (IF Head(events).input = "f1"
                          THEN on_plot_error_label(Head(events), f1_error_label)
                          ELSE f1_error_label)
    /\ f2_error_label' = (IF Head(events).input = "f2"
                          THEN on_plot_error_label(Head(events), f2_error_label)
                          ELSE f2_error_label)
    /\ UNCHANGED <<f1_input, f2_input, f1_valid, f2_valid, enabled, xlim, plot_worker,
                   solver_worker, pool, otherVars>>

\* PlotSignals.finished delivered: on_plot_complete; an exception of
\* update_plot ends the slot
DeliverPlotFinished ==
    /\ Delivered("PlotWorker", "finished")
    /\ IF update_plot_raises(Head(events))
       THEN UNCHANGED <<enabled, xlim, plot_worker>>
       ELSE /\ xlim' = Head(events).plot_data.xlim
            /\ enabled' = enable_inputs
            /\ plot_worker' = "None"
    /\ UNCHANGED <<f1_input, f2_input, f1_valid, f2_valid, f1_error_label, f2_error_label,
                   solver_worker, pool, otherVars>>

\* SolverSignals.finished delivered: on_solve_complete; an exception of
\* update_intersection_display ends the slot
DeliverSolverFinished ==
    /\ Delivered("SolverWorker", "finished")
    /\ IF display_raises(f1_input, Head(events))
       THEN UNCHANGED <<f1_error_label, f2_error_label, enabled, plot_worker, pool,
                        solver_worker>>
       ELSE /\ plot_functions(Head(events).intersection_points)
            /\ solver_worker' = "None"
    /\ UNCHANGED <<f1_input, f2_input, f1_valid, f2_valid, xlim, otherVars>>

NextApp ==
    \/ KeyPress
    \/ Backspace
    \/ Paste
    \/ Scroll
    \/ ClickPlot
    \/ ClickSolve
    \/ RunPlotWorker
    \/ RunSolverWorker
    \/ DeliverPlotError
    \/ DeliverPlotFinished
    \/ DeliverSolverFinished

SpecApp == InitApp /\ [][NextApp]_vars

(***************************************************************************)
(* Vocabulary of the properties                                            *)
(***************************************************************************)
IsOperandTok(t) == t.type \in {"number", "variable"}
IsBinOpTok(t) == t.type \in {"plus", "minus", "asterisk", "slash", "exponent"}

\* The tree of a single operand token
OperandNode(t) ==
    IF t.type = "number" THEN NumberLiteral(t.value) ELSE Variable(t.value)

\* Precedence levels as the specification states them
LevelOf(t) ==
    CASE t.type \in {"plus", "minus"} -> 1
      [] t.type \in {"asterisk", "slash"} -> 2
      [] t.type = "exponent" -> 3

IsThreeOperand(toks) ==
    /\ Len(toks) = 5
    /\ IsOperandTok(toks[1]) /\ IsBinOpTok(toks[2]) /\ IsOperandTok(toks[3])
    /\ IsBinOpTok(toks[4]) /\ IsOperandTok(toks[5])

IsParenThreeOperand(toks) ==
    /\ Len(toks) = 7
    /\ toks[1].type = "lparen" /\ toks[5].type = "rparen"
    /\ IsThreeOperand(<<toks[2], toks[3], toks[4], toks[6], toks[7]>>)

LeftTree(a, o1, b, o2, c) ==
    InfixExpression(InfixExpression(OperandNode(a), o1.value, OperandNode(b)),
                    o2.value, OperandNode(c))

RightTree(a, o1, b, o2, c) ==
    InfixExpression(OperandNode(a), o1.value,
                    InfixExpression(OperandNode(b), o2.value, OperandNode(c)))

Done == ppc = "done"
Returned == Done /\ parsed.err = ""

(***************************************************************************)
(* C1: after parsing a op1 b op2 c the tree is a op1 (b op2 c) when op2    *)
(* has strictly higher precedence than op1 and (a op1 b) op2 c when it has *)
(* strictly lower precedence; ( a op1 b ) op2 c always parses with the     *)
(* parenthesised part as the left operand of op2.                          *)
(***************************************************************************)
C1_Precedence ==
    Done =>
      /\ IsThreeOperand(tokens) =>
            /\ LevelOf(tokens[4]) > LevelOf(tokens[2]) =>
                  parsed = Ok(RightTree(tokens[1], tokens[2], tokens[3], tokens[4], tokens[5]), 5)
            /\ LevelOf(tokens[4]) < LevelOf(tokens[2]) =>
                  parsed = Ok(LeftTree(tokens[1], tokens[2], tokens[3], tokens[4], tokens[5]), 5)
      /\ IsParenThreeOperand(tokens) =>
            parsed = Ok(LeftTree(tokens[2], tokens[3], tokens[4], tokens[6], tokens[7]), 7)

C1_Witness ==
    /\ Returned
    /\ IsParenThreeOperand(tokens)
    /\ LevelOf(tokens[6]) > LevelOf(tokens[3])
    /\ parsed.node[2][1] = "InfixExpression"

(***************************************************************************)
(* C2: a chain a ^ b ^ ... ^ z parses right-nested, a ^ (b ^ (... ^ z)),   *)
(* and never left-nested.                                                  *)
(***************************************************************************)
IsExpChain(toks) ==
    /\ Len(toks) >= 3 /\ Len(toks) % 2 = 1
    /\ \A i \in 1..Len(toks) :
          IF i % 2 = 1 THEN IsOperandTok(toks[i]) ELSE toks[i].type = "exponent"

RECURSIVE RightNested(_)
RightNested(toks) ==
    IF Len(toks) = 1 THEN OperandNode(toks[1])
    ELSE InfixExpression(OperandNode(toks[1]), "^", RightNested(SubSeq(toks, 3, Len(toks))))

RECURSIVE LeftNested(_)
LeftNested(toks) ==
    IF Len(toks) = 1 THEN OperandNode(toks[1])
    ELSE InfixExpression(LeftNested(SubSeq(toks, 1, Len(toks) - 2)), "^",
                         OperandNode(toks[Len(toks)]))

C2_ExponentRightAssociative ==
    (Done /\ IsExpChain(tokens)) =>
        /\ parsed = Ok(RightNested(tokens), Len(tokens))
        /\ Len(tokens) >= 5 => parsed.node # LeftNested(tokens)

C2_Witness ==
    /\ Returned
    /\ IsExpChain(tokens)
    /\ Len(tokens) = 2 * MaxChain - 1
    /\ parsed.node[4][4][1] = "InfixExpression"

(***************************************************************************)
(* C3: implicit multiplication against an explicit asterisk                *)
(***************************************************************************)
Insert(toks, i, t) == SubSeq(toks, 1, i - 1) \o <<t>> \o SubSeq(toks, i, Len(toks))
Delete(toks, i) == SubSeq(toks, 1, i - 1) \o SubSeq(toks, i + 1, Len(toks))

SameTree(r1, r2) == ((r1.err = "") <=> (r2.err = "")) /\ r1.node = r2.node

\* Token i is a variable, '(' or function directly after a complete operand
FollowsOperand(toks, i) ==
    /\ i >= 2
    /\ toks[i].type \in {"variable", "lparen", "function"}
    /\ toks[i - 1].type \in {"number", "variable", "rparen"}

\* Index of the '(' matching a ')' , scanning left from k; 0 when there is none
RECURSIVE MatchingLParen(_, _, _)
MatchingLParen(toks, k, depth) ==
    IF k = 0 THEN 0
    ELSE IF toks[k].type = "rparen" THEN MatchingLParen(toks, k - 1, depth + 1)
    ELSE IF toks[k].type = "lparen"
         THEN IF depth = 0 THEN k ELSE MatchingLParen(toks, k - 1, depth - 1)
    ELSE MatchingLParen(toks, k - 1, depth)

\* First token of the operand whose last token is j
OperandStart(toks, j) ==
    IF toks[j].type # "rparen" THEN j
    ELSE LET m == MatchingLParen(toks, j - 1, 0)
         IN  IF m > 1 /\ toks[m - 1].type = "function" THEN m - 1 ELSE m

\* The operand that ends at j is the right operand of * / ^ or of an
\* implicit multiplication
IsTightRightOperand(toks, j) ==
    LET s == OperandStart(toks, j)
    IN  /\ s > 1
        /\ toks[s - 1].type \in {"asterisk", "slash", "exponent",
                                 "number", "variable", "rparen"}

\* C3 as stated: wherever a variable, '(' or function token directly follows
\* a complete operand, inserting an asterisk there leaves the tree unchanged.
C3_Original ==
    Done =>
      \A i \in 1..Len(tokens) :
          FollowsOperand(tokens, i) =>
              SameTree(parsed, parse(Insert(tokens, i, OpTok("*"))))

\* C3 (amended): wherever a variable, '(' or function token directly follows
\* a complete operand that is not itself the right operand of '*', '/', '^'
\* or of another implicit multiplication, inserting an asterisk there leaves
\* the tree unchanged.
C3_ImplicitMultiplication ==
    Done =>
      \A i \in 1..Len(tokens) :
          (FollowsOperand(tokens, i) /\ ~IsTightRightOperand(tokens, i - 1)) =>
              SameTree(parsed, parse(Insert(tokens, i, OpTok("*"))))

C3_Witness ==
    /\ Returned
    /\ Len(tokens) = 4
    /\ tokens[1].type = "number" /\ tokens[2].type = "plus"
    /\ FollowsOperand(tokens, 4) /\ ~IsTightRightOperand(tokens, 3)
    /\ parsed.node[4][3] = "*"

(***************************************************************************)
(* C4: parse returns a tree only when every token was consumed; when the   *)
(* top-level expression ends before the last token, and in particular when *)
(* a number or ')' follows a complete expression, parse fails with         *)
(* "Not a valid expression".                                               *)
(***************************************************************************)
C4_ConsumesAllTokens ==
    Done =>
      /\ parsed.err = "" => parsed.cur >= Len(tokens)
      /\ LET top == parseExpression(tokens, 0, 0)
         IN  (top.err = "" /\ top.cur < Len(tokens)) =>
                 parsed.err = "Not a valid expression"
      /\ (parsed.err = "" /\ parsed.cur = Len(tokens)) =>
             \A t \in {NumTok(1), RParenTok} :
                 parse(tokens \o <<t>>).err = "Not a valid expression"

C4_Witness ==
    /\ Done
    /\ parsed.err = "Not a valid expression"
    /\ Len(tokens) = 4
    /\ tokens[4].type = "rparen"
    /\ parse(SubSeq(tokens, 1, 3)).err = ""

(***************************************************************************)
(* C5: a prefix operator binds only to the following unary operand:        *)
(* - a op b is (-a) op b for op other than '^', and deleting a prefix '+'  *)
(* never changes the tree.                                                 *)
(***************************************************************************)
IsPrefixPlus(toks, i) ==
    /\ toks[i].type = "plus"
    /\ i = 1 \/ toks[i - 1].type \in {"plus", "minus", "asterisk", "slash",
                                        "exponent", "lparen"}

C5_PrefixBindsToUnary ==
    Done =>
      /\ ( /\ Len(tokens) = 4
           /\ tokens[1].type = "minus" /\ IsOperandTok(tokens[2])
           /\ IsBinOpTok(tokens[3]) /\ tokens[3].type # "exponent"
           /\ IsOperandTok(tokens[4]) ) =>
              parsed = Ok(InfixExpression(
                              PrefixExpression("-", OperandNode(tokens[2])),
                              tokens[3].value, OperandNode(tokens[4])), 4)
      /\ \A i \in 1..Len(tokens) :
              IsPrefixPlus(tokens, i) => SameTree(parsed, parse(Delete(tokens, i)))

(***************************************************************************)
(* Vocabulary of the evaluator properties                                  *)
(***************************************************************************)
Called == log # <<>>
Last == log[Len(log)]
Supported == {"sqrt", "log10", "sin", "cos"}

IsEvaluatorError(r, message) ==
    r.exc = "EvaluatorError" /\ r.msg = "EvaluatorError: " \o message

IsNegative(a) == a[1] < 0
IsZero(a) == a[1] = 0

(***************************************************************************)
(* C6: when both operands of '/' evaluate, the division fails with         *)
(* "Division by zero" exactly when the divisor is 0; sqrt fails with       *)
(* "Square root of negative number" exactly when its argument is < 0;      *)
(* log10 fails with "Logarithm of non-positive number" exactly when its    *)
(* argument is <= 0; sin and cos succeed whenever their argument does.     *)
(***************************************************************************)
C6_DomainGuards ==
    Called =>
      LET a == evaluator.ast
          r == Last.result
      IN  /\ (a[1] = "InfixExpression" /\ a[3] = "/") =>
                LET dividend == Walk(a[2], Last.v)
                    divisor == Walk(a[4], Last.v)
                IN  (dividend.exc = "" /\ divisor.exc = "") =>
                      IF IsZero(divisor.val)
                      THEN IsEvaluatorError(r, "Division by zero")
                      ELSE r.exc = ""
          /\ (a[1] = "FunctionCall" /\ a[2] \in Supported) =>
                LET value == Walk(a[3], Last.v)
                IN  value.exc = "" =>
                      CASE a[2] = "sqrt" ->
                             IF IsNegative(value.val)
                             THEN IsEvaluatorError(r, "Square root of negative number")
                             ELSE r.exc = ""
                        [] a[2] = "log10" ->
                             IF IsNegative(value.val) \/ IsZero(value.val)
                             THEN IsEvaluatorError(r, "Logarithm of non-positive number")
                             ELSE r.exc = ""
                        [] a[2] \in {"sin", "cos"} -> r.exc = ""

\* sqrt(x) evaluated at x = 0 returned 0
C6_Witness ==
    /\ Called
    /\ evaluator.ast = FunctionCall("sqrt", Variable("x"))
    /\ Last.v = Zero
    /\ Last.result = Value(Zero, 1)

(***************************************************************************)
(* C7: evaluating a FunctionCall whose name is not sqrt, log10, sin or cos *)
(* raises UnknownFunctionError "Unknown Function: {name}" for every        *)
(* binding, and the text name(arg) lexes and parses to that FunctionCall.  *)
(***************************************************************************)
NameChars == [foo |-> <<"f", "o", "o">>]

LeafChars(leaf) ==
    IF leaf[1] = "Variable" THEN <<"x">>
    ELSE <<CHOOSE c \in Digits : DigitValue(c) = leaf[2][1]>>

C7_UnknownFunction ==
    LET a == evaluator.ast
    IN  (a[1] = "FunctionCall" /\ a[2] \notin Supported) =>
          /\ \A i \in 1..Len(log) :
                /\ log[i].result.exc = "UnknownFunctionError"
                /\ log[i].result.msg = "Unknown Function: " \o a[2]
          /\ (Called /\ a[3] \in LeafTrees) =>
                LET text == NameChars[a[2]] \o <<"(">> \o LeafChars(a[3]) \o <<")">>
                IN  /\ Lexer(text).err = ""
                    /\ parse(Lexer(text).tokens) = Ok(a, 4)

\* foo(1/0) was evaluated and raised UnknownFunctionError
C7_Witness ==
    /\ Called
    /\ evaluator.ast = FunctionCall("foo",
            InfixExpression(NumberLiteral(Int2Rat(1)), "/", NumberLiteral(Zero)))
    /\ Last.result.exc = "UnknownFunctionError"

(***************************************************************************)
(* C8: with two evaluate calls running concurrently on one Evaluator, each *)
(* call returns the value of the tree under its own binding.               *)
(***************************************************************************)
C8_Reentrant ==
    \A t \in Threads :
        (/\ tpc[t] = "done"
         /\ \A u \in Threads : tpc[u] # "idle"
         /\ \A u \in Threads \ {t} : tbind[u] # tbind[t])
            => tres[t] = Walk(evaluator.ast, tbind[t])

(***************************************************************************)
(* C9: the outcome of evaluate(v) depends only on the tree and v: any two  *)
(* calls with the same v on one Evaluator have the same outcome, whatever  *)
(* calls were made before, failed ones included.                           *)
(***************************************************************************)
C9_NoStateCarried ==
    \A i, j \in 1..Len(log) :
        log[i].v = log[j].v => log[i].result = log[j].result

\* evaluate(1), then a failing evaluate(0), then evaluate(1) again
C9_Witness ==
    /\ Len(log) = 3
    /\ log[1].v = log[3].v /\ log[2].v # log[1].v
    /\ log[1].result.exc = ""
    /\ log[2].result.exc = "EvaluatorError"
    /\ log[3].result.exc = ""
    /\ VariableCount(evaluator.ast) > 0

(***************************************************************************)
(* C10: whenever adaptive_sampling returns, x is strictly ascending, x and *)
(* y have the same length, and 0 and every element of must_include are in  *)
(* x, also those outside [x_min, x_max] and [-100, 100].                   *)
(***************************************************************************)
SampleReturned == spc = "done" /\ sampled.exc = ""

C10_SampleShape ==
    SampleReturned =>
      /\ \A i \in 1..(Len(sampled.x) - 1) :
            sampled.x[i][1] * sampled.x[i + 1][2] < sampled.x[i + 1][1] * sampled.x[i][2]
      /\ Len(sampled.x) = Len(sampled.y)
      /\ \A m \in Range(must_evaluate_points) \cup {Zero} :
            \E i \in 1..Len(sampled.x) : sampled.x[i] = m

\* a refined pass that had to include a point beyond [-100, 100] and [x_min, x_max]
C10_Witness ==
    /\ SampleReturned
    /\ Int2Rat(150) \in Range(must_evaluate_points)
    /\ call.x_max = 10
    /\ Len(sampled.x) > call.num_points + Len(must_evaluate_points) + 1
    /\ \E i \in 1..Len(sampled.y) : sampled.y[i].nan

(***************************************************************************)
(* C11: a sampling pass always completes: whatever failure evaluate has at *)
(* a grid point (division by zero, negative sqrt, non-positive log,        *)
(* unknown function), no exception leaves adaptive_sampling and the y of   *)
(* that point is NaN.                                                      *)
(***************************************************************************)
C11_AbsorbsFailures ==
    spc = "done" =>
      /\ sampled.exc = ""
      /\ \A i \in 1..Len(sampled.x) :
            Walk(evaluator.ast, sampled.x[i]).exc # "" => sampled.y[i].nan

(***************************************************************************)
(* Vocabulary of the lexer properties                                      *)
(***************************************************************************)
Lexed == lpc = "done"
Prefix(t, n) == SubSeq(t, 1, n)
At(t, i) == IF i \in 1..Len(t) THEN t[i] ELSE ""

\* the characters the lexer has a case for
Lexable(c) ==
    \/ c = "x"
    \/ isdigit(c)
    \/ isspace(c)
    \/ c \in {"-", "+", "*", "/", "^", "(", ")", "."}
    \/ isalpha(c)

(***************************************************************************)
(* C12: a text with a character the lexer has no case for yields no token  *)
(* list; when that character is the first such character, at 1-based index *)
(* i, and the text before it lexes, Lexer raises LexerError "Invalid       *)
(* character" with position i, whitespace and all earlier characters       *)
(* counted.                                                                *)
(***************************************************************************)
C12_InvalidCharacter ==
    Lexed =>
      \A i \in 1..Len(input_str) :
         ~Lexable(input_str[i]) =>
            /\ lexed.err # ""
            /\ lexed.tokens = <<>>
            /\ ( /\ \A j \in 1..(i - 1) : Lexable(input_str[j])
                 /\ Lexer(Prefix(input_str, i - 1)).err = "" )
               => lexed.err = "Invalid character" /\ lexed.pos = i

\* `1 ,`: the invalid character follows a number and a skipped blank
C12_Witness ==
    /\ Lexed
    /\ Len(input_str) = 3
    /\ isdigit(input_str[1]) /\ isspace(input_str[2]) /\ ~Lexable(input_str[3])
    /\ lexed.err = "Invalid character"
    /\ lexed.pos = 3

\* the end of the run of digits that starts at s
DigitRunEnd(t, s) ==
    CHOOSE e \in s..Len(t) :
        /\ \A j \in s..e : isdigit(t[j])
        /\ ~isdigit(At(t, e + 1))

\* a token starts at s: lexing the text up to s gives the tokens of the
\* text before s and one more
TokenStartsAt(t, s) ==
    /\ Lexer(Prefix(t, s - 1)).err = ""
    /\ Lexer(Prefix(t, s)).err = ""
    /\ Len(Lexer(Prefix(t, s)).tokens) = Len(Lexer(Prefix(t, s - 1)).tokens) + 1
    /\ Prefix(Lexer(Prefix(t, s)).tokens, Len(Lexer(Prefix(t, s - 1)).tokens))
          = Lexer(Prefix(t, s - 1)).tokens

TokensBefore(t, s) == Len(Lexer(Prefix(t, s - 1)).tokens)

\* the value of the decimal numeral t[s..e]
Numeral(t, s, e) == NumberValue(SubSeq(t, s, e), 1, 0, 0)

\* the number scanned is t[s..e]: an error can only come later, and when the
\* text lexes its next token is that number, followed by a Dot token when a
\* '.' is the next character
ScansNumber(t, s, e) ==
    /\ lexed.err # "" => lexed.pos > (IF At(t, e + 1) = "." THEN e + 1 ELSE e)
    /\ lexed.err = "" =>
         /\ Len(lexed.tokens) > TokensBefore(t, s)
         /\ lexed.tokens[TokensBefore(t, s) + 1] = Token("number", Numeral(t, s, e))
         /\ At(t, e + 1) = "." =>
               /\ Len(lexed.tokens) > TokensBefore(t, s) + 1
               /\ lexed.tokens[TokensBefore(t, s) + 2] = Token("dot", ".")

(***************************************************************************)
(* C13: in a number scan that starts at s, a '.' is part of the number     *)
(* only when a digit follows it and the number has no '.' yet; a second    *)
(* '.' followed by a digit raises "Multiple decimal points" at the 1-based *)
(* index of that '.'; a '.' not followed by a digit ends the number and is *)
(* a Dot token of its own, without error.                                  *)
(***************************************************************************)
C13_DecimalPoint ==
    Lexed =>
      \A s \in 1..Len(input_str) :
         (isdigit(input_str[s]) /\ TokenStartsAt(input_str, s)) =>
            IF /\ At(input_str, DigitRunEnd(input_str, s) + 1) = "."
               /\ isdigit(At(input_str, DigitRunEnd(input_str, s) + 2))
            THEN IF /\ At(input_str, DigitRunEnd(input_str, DigitRunEnd(input_str, s) + 2) + 1) = "."
                    /\ isdigit(At(input_str, DigitRunEnd(input_str, DigitRunEnd(input_str, s) + 2) + 2))
                 THEN /\ lexed.err = "Multiple decimal points"
                      /\ lexed.pos = DigitRunEnd(input_str, DigitRunEnd(input_str, s) + 2) + 1
                      /\ lexed.tokens = <<>>
                 ELSE ScansNumber(input_str, s,
                                  DigitRunEnd(input_str, DigitRunEnd(input_str, s) + 2))
            ELSE ScansNumber(input_str, s, DigitRunEnd(input_str, s))

\* `1.1.1` raises at the second '.'
C13_Witness ==
    /\ Lexed
    /\ input_str = <<"1", ".", "1", ".", "1">>
    /\ lexed.err = "Multiple decimal points"
    /\ lexed.pos = 4

\* the end of the run of letters and digits that starts at s
AlnumRunEnd(t, s) ==
    CHOOSE e \in s..Len(t) :
        /\ \A j \in s..e : isalnum(t[j])
        /\ ~isalnum(At(t, e + 1))

\* the string of a sequence of characters
RECURSIVE Concat(_)
Concat(q) == IF q = <<>> THEN "" ELSE q[1] \o Concat(Tail(q))

StartsName(c) == isalpha(c) /\ c # "x"

\* token k is the Function token named by the whole run of letters and
\* digits from s, and no error comes before the end of that run
ScansFunction(t, s, k) ==
    /\ lexed.err # "" => lexed.pos > AlnumRunEnd(t, s)
    /\ lexed.err = "" =>
         /\ Len(lexed.tokens) >= k
         /\ lexed.tokens[k] = Token("function", Concat(SubSeq(t, s, AlnumRunEnd(t, s))))

(***************************************************************************)
(* C14: where a token starts with a letter other than the variable symbol, *)
(* the token is a Function token whose value is the maximal run of letters *)
(* and digits from there, the variable symbol and digits inside the run    *)
(* included, whatever the name; where a token starts with the variable     *)
(* symbol, it is a Variable token, and a name that follows it is a         *)
(* Function token of its own.                                              *)
(***************************************************************************)
C14_FunctionNames ==
    Lexed =>
      \A s \in 1..Len(input_str) :
         TokenStartsAt(input_str, s) =>
            /\ StartsName(input_str[s]) =>
                  ScansFunction(input_str, s, TokensBefore(input_str, s) + 1)
            /\ input_str[s] = "x" =>
                  /\ lexed.err = "" =>
                        /\ Len(lexed.tokens) > TokensBefore(input_str, s)
                        /\ lexed.tokens[TokensBefore(input_str, s) + 1] = Token("variable", "x")
                  /\ StartsName(At(input_str, s + 1)) =>
                        ScansFunction(input_str, s + 1, TokensBefore(input_str, s) + 2)

\* `xe1x`: Variable, then the Function token e1x
C14_Witness ==
    /\ Lexed
    /\ input_str = <<"x", "e", "1", "x">>
    /\ lexed.tokens = <<Token("variable", "x"), Token("function", "e1x")>>

(***************************************************************************)
(* Vocabulary of the parser's failures                                     *)
(***************************************************************************)
Failed == Done /\ parsed.err # ""

NoPrefixMessages ==
    {"No prefix function for " \o v : v \in {")", "*", "/", "^", "."}}

FourMessages ==
    NoPrefixMessages \cup {"Nothing to parse at the end of the input",
                           "Expected left parenthesis",
                           "Not a valid expression"}

\* C15 as stated: a failure of parse carries one of the four messages
C15_FourMessages == Failed => parsed.err \in FourMessages

(***************************************************************************)
(* C15: every failure of parse is a ParserError with one of five messages: *)
(* "No prefix function for {value}", "Nothing to parse at the end of the   *)
(* input", "Expected left parenthesis", "Not a valid expression" and       *)
(* "Expected right parenthesis", the last raised when the expression       *)
(* after '(' is followed by a token other than ')'.                        *)
(***************************************************************************)
C15_FiveMessages ==
    Failed =>
      /\ parsed.err \in FourMessages \cup {"Expected right parenthesis"}
      /\ parsed.err = "Expected right parenthesis" =>
            \E i \in 1..Len(tokens) :
               /\ tokens[i].type = "lparen"
               /\ \E j \in (i + 2)..Len(tokens) : tokens[j].type # "rparen"

\* `( x 1`: the expression after '(' is followed by a number
C15_Witness ==
    /\ Failed
    /\ Len(tokens) = 3
    /\ tokens[1].type = "lparen" /\ tokens[2].type = "variable" /\ tokens[3].type = "number"
    /\ parsed.err = "Expected right parenthesis"

\* the number of ')' tokens at the very end of toks
TrailingRParens(toks) ==
    CHOOSE k \in 0..Len(toks) :
        /\ \A i \in (Len(toks) - k + 1)..Len(toks) : toks[i].type = "rparen"
        /\ k = Len(toks) \/ toks[Len(toks) - k].type # "rparen"

(***************************************************************************)
(* C16: when a token sequence parses, the sequence with one or more of the *)
(* ')' tokens at its very end removed parses too, to the same tree.        *)
(***************************************************************************)
C16_MissingRParenTolerated ==
    Returned =>
      \A m \in 1..TrailingRParens(tokens) :
         /\ parse(Prefix(tokens, Len(tokens) - m)).err = ""
         /\ parse(Prefix(tokens, Len(tokens) - m)).node = parsed.node

\* sin ( a op ( b ) ): both closing parentheses can be left out
C16_Witness ==
    /\ Returned
    /\ TrailingRParens(tokens) = 2
    /\ tokens[1].type = "function"
    /\ parsed.node[1] = "FunctionCall"
    /\ parse(Prefix(tokens, Len(tokens) - 2)).node = parsed.node

\* no implicit multiplication: no variable, '(' or function token directly
\* after the end of an operand
ExplicitOperators(toks) ==
    \A i \in 2..Len(toks) :
       toks[i].type \in implicitMultiplications =>
          toks[i - 1].type \notin {"number", "variable", "rparen"}

(***************************************************************************)
(* C17: for a tree parsed from input with explicit operators only, lexing  *)
(* and parsing the tree's __repr__ yields a tree equal to it, also when    *)
(* the input had parentheses.                                              *)
(***************************************************************************)
C17_ReprRoundTrip ==
    (Returned /\ ExplicitOperators(tokens)) =>
       /\ parse_expression(repr(parsed.node)).err = ""
       /\ parse_expression(repr(parsed.node)).node = parsed.node

(***************************************************************************)
(* C18: when lexing or parsing f1 or f2 fails, the outcome of the solve    *)
(* request is not the result of a solve without intersections (no roots,   *)
(* not identical), and the requester is not shown that result.             *)
(***************************************************************************)
C18_FailureSurfaced ==
    ( /\ wpc \in {"emitted", "shown"}
      /\ parse_expression(f1_str).err # "" \/ parse_expression(f2_str).err # "" )
    => /\ ~(finished.intersection_points = <<>> /\ ~finished.is_same)
       /\ solutions # "No intersection points found"

(***************************************************************************)
(* Vocabulary of the refinement                                            *)
(***************************************************************************)
\* the first grid of the call: linspace united with must_evaluate_points and 0
InitialGrid ==
    union1d(linspace(Int2Rat(Min(call.x_min, -100)), Int2Rat(Max(call.x_max, 100)),
                     call.num_points),
            Append(must_evaluate_points, Zero))

Defined(p) == Walk(evaluator.ast, p).exc = ""

\* the y difference of the points a and b exceeds the tolerance
Exceeds(a, b) ==
    /\ Defined(a) /\ Defined(b)
    /\ RatLt(tolerance,
             RatAbs(RatSub(Walk(evaluator.ast, b).val, Walk(evaluator.ast, a).val)))

\* the returned x-values strictly between a and b
Between(a, b) == {p \in Range(sampled.x) : RatLt(a, p) /\ RatLt(p, b)}

\* C19 as stated: 10 additional x-values between a pair that exceeds
C19_TenAdditional ==
    SampleReturned =>
      \A i \in 1..(Len(InitialGrid) - 1) :
         IF Exceeds(InitialGrid[i], InitialGrid[i + 1])
         THEN Cardinality(Between(InitialGrid[i], InitialGrid[i + 1])) = 10
         ELSE Between(InitialGrid[i], InitialGrid[i + 1]) = {}

(***************************************************************************)
(* C19: refinement is a single pass: between two consecutive points a < b  *)
(* of the first grid whose y difference exceeds the tolerance the returned *)
(* x has exactly the 8 values a + k (b - a) / 9, k = 1..8 (with a and b    *)
(* the 10 evenly spaced values of linspace(a, b, 10)); between a pair that *)
(* does not exceed it, or has an undefined y, it has none; and y is the    *)
(* value at each returned x.                                               *)
(***************************************************************************)
C19_RefinementOnce ==
    SampleReturned =>
      /\ \A i \in 1..(Len(InitialGrid) - 1) :
            IF Exceeds(InitialGrid[i], InitialGrid[i + 1])
            THEN Between(InitialGrid[i], InitialGrid[i + 1]) =
                   {RatAdd(InitialGrid[i],
                           RatDiv(RatMul(Int2Rat(k),
                                         RatSub(InitialGrid[i + 1], InitialGrid[i])),
                                  Int2Rat(9))) : k \in 1..8}
            ELSE Between(InitialGrid[i], InitialGrid[i + 1]) = {}
      /\ Len(sampled.y) = Len(sampled.x)
      /\ \A j \in 1..Len(sampled.x) :
            sampled.y[j] = IF Defined(sampled.x[j])
                           THEN Number(Walk(evaluator.ast, sampled.x[j]).val)
                           ELSE NaN

\* 1/x: a pair that exceeds the tolerance next to a pair with the undefined y of 0
C19_Witness ==
    /\ SampleReturned
    /\ evaluator.ast = InfixExpression(NumberLiteral(Int2Rat(1)), "/", Variable("x"))
    /\ \E i \in 1..(Len(InitialGrid) - 2) :
          /\ Exceeds(InitialGrid[i], InitialGrid[i + 1])
          /\ Cardinality(Between(InitialGrid[i], InitialGrid[i + 1])) = 8
          /\ InitialGrid[i + 1] = Zero \/ InitialGrid[i + 2] = Zero
          /\ Between(InitialGrid[i + 1], InitialGrid[i + 2]) = {}

(***************************************************************************)
(* Vocabulary of the argument of a FunctionCall                            *)
(***************************************************************************)
IsCall == evaluator.ast[1] = "FunctionCall"
\* what evaluating the argument alone does under binding v
Argument(v) == Walk(evaluator.ast[3], v)
SameError(r, a) == r.exc = a.exc /\ r.msg = a.msg

\* C20 as stated: a failing argument decides the failure for every name
C20_ArgumentFirst ==
    IsCall =>
       \A i \in 1..Len(log) :
          Argument(log[i].v).exc # "" => SameError(log[i].result, Argument(log[i].v))

(***************************************************************************)
(* C20: a FunctionCall dispatches on the name first.  For sqrt, log10, sin *)
(* and cos the argument is evaluated before the function's own check, so a *)
(* failing argument makes evaluate fail with the argument's error; for any *)
(* other name evaluate fails with UnknownFunctionError without evaluating  *)
(* the argument, also when the argument would fail.                        *)
(***************************************************************************)
C20_DispatchFirst ==
    IsCall =>
       \A i \in 1..Len(log) :
          Argument(log[i].v).exc # "" =>
             IF evaluator.ast[2] \in Supported
             THEN SameError(log[i].result, Argument(log[i].v))
             ELSE /\ log[i].result.exc = "UnknownFunctionError"
                  /\ log[i].result.msg = "Unknown Function: " \o evaluator.ast[2]

\* sqrt(1/x) at x = 0 fails with the division's error
C20_Witness ==
    /\ Called
    /\ evaluator.ast = FunctionCall("sqrt",
            InfixExpression(NumberLiteral(Int2Rat(1)), "/", Variable("x")))
    /\ Last.v = Zero
    /\ Last.result.exc = "EvaluatorError"
    /\ SameError(Last.result, Argument(Zero))
    /\ Last.result.msg # EvaluatorError("Square root of negative number", 0).msg

\* a '.' at s that a digit follows and no digit precedes, reached by the scan
LeadingDot(t, s) ==
    /\ t[s] = "."
    /\ isdigit(At(t, s + 1))
    /\ ~isdigit(At(t, s - 1))
    /\ Lexer(Prefix(t, s - 1)).err = ""

\* the end of the number scan that starts with the digit at s
NumberScanEnd(t, s) ==
    IF At(t, DigitRunEnd(t, s) + 1) = "." /\ isdigit(At(t, DigitRunEnd(t, s) + 2))
    THEN DigitRunEnd(t, DigitRunEnd(t, s) + 2)
    ELSE DigitRunEnd(t, s)

(***************************************************************************)
(* C21 as stated: a '.' that a digit follows and no digit precedes starts  *)
(* one floating-point Number token that holds the '.' and the digits after *)
(* it (`.5` is the number 0.5).                                            *)
(***************************************************************************)
C21_LeadingDotNumber ==
    (Lexed /\ lexed.err = "") =>
      \A s \in 1..Len(input_str) :
         LeadingDot(input_str, s) =>
            /\ Len(lexed.tokens) > TokensBefore(input_str, s)
            /\ lexed.tokens[TokensBefore(input_str, s) + 1] =
                  Token("number", Numeral(input_str, s, DigitRunEnd(input_str, s + 1)))

(***************************************************************************)
(* C21 amended: a number needs its integer part.  A '.' that a digit       *)
(* follows and no digit precedes is a Dot token, and the digits after it   *)
(* start a Number token of their own (`.1` is Dot, Number 1; `.1.1` is     *)
(* Dot, Number 1.1).                                                       *)
(***************************************************************************)
C21_DotThenNumber ==
    (Lexed /\ lexed.err = "") =>
      \A s \in 1..Len(input_str) :
         LeadingDot(input_str, s) =>
            /\ Len(lexed.tokens) > TokensBefore(input_str, s) + 1
            /\ lexed.tokens[TokensBefore(input_str, s) + 1] = Token("dot", ".")
            /\ lexed.tokens[TokensBefore(input_str, s) + 2] =
                  Token("number", Numeral(input_str, s + 1, NumberScanEnd(input_str, s + 1)))

\* `.1` is a Dot token and the integer 1
C21_Witness ==
    /\ Lexed
    /\ input_str = <<".", "1">>
    /\ lexed.tokens = <<Token("dot", "."), Token("number", Int2Rat(1))>>

(***************************************************************************)
(* C22: converting a FunctionCall whose name is not sqrt, log10, sin or    *)
(* cos raises a ParserError whose message is "ParserError: Not a valid     *)
(* function", and no other kind of error.                                  *)
(***************************************************************************)
C22_NotAValidFunction ==
    (cpc = "done" /\ sym_ast[1] = "FunctionCall" /\ sym_ast[2] \notin Supported) =>
        /\ converted.exc = "ParserError"
        /\ converted.msg = "ParserError: Not a valid function"

\* the cursors a parser method can be entered with: the cursor passes the
\* end by one for every parenthesis left open
Cursors == 0..(2 * Len(tokens))
Levels == 0..4

ParserErrors ==
    NoPrefixMessages \cup
    {"Nothing to parse at the end of the input", "Expected left parenthesis",
     "Not a valid expression", "Expected right parenthesis"}

\* one iteration of the infix loop of parseExpression at cursor cur
Iteration(toks, cur, left) ==
    IF toks[cur + 1].type \in implicitMultiplications
    THEN parseImplicitMultiplication(toks, cur, left)
    ELSE parseInfixExpression(toks, cur + 1, left, toks[cur + 1])

(***************************************************************************)
(* C23: Parser.parse returns a tree or raises ParserError, never another   *)
(* exception; every parseExpression call that returns, whatever cursor and *)
(* precedence it is entered with, has consumed at least one token, and so  *)
(* has every iteration of its infix loop; entered with the cursor at or    *)
(* past the end, parseExpression raises ParserError, parseFunction raises  *)
(* ParserError and the infix loop stops without reading a token; every     *)
(* token type with a precedence has an infix handler.                      *)
(***************************************************************************)
C23_ParserTotal ==
    Done =>
      /\ parsed.err \in {""} \cup ParserErrors
      /\ \A t \in DOMAIN precedences : precedences[t] # 0 => t \in infixFunctions
      /\ \A cur \in Cursors, p \in Levels :
            /\ parseExpression(tokens, cur, p).err \in {""} \cup ParserErrors
            /\ parseExpression(tokens, cur, p).err = "" =>
                  parseExpression(tokens, cur, p).cur > cur
            /\ (cur < Len(tokens) /\ p < getPrecedence(tokens, cur)) =>
                  /\ tokens[cur + 1].type \in infixFunctions
                  /\ Iteration(tokens, cur, Variable("x")).err \in {""} \cup ParserErrors
                  /\ Iteration(tokens, cur, Variable("x")).err = "" =>
                        Iteration(tokens, cur, Variable("x")).cur > cur
            /\ cur >= Len(tokens) =>
                  /\ parseExpression(tokens, cur, p).err =
                        "Nothing to parse at the end of the input"
                  /\ parseFunction(tokens, cur, FunTok("sin")).err = "Expected left parenthesis"
                  /\ parseInfixLoop(tokens, cur, p, Variable("x")) = Ok(Variable("x"), cur)

\* `( ( x`: both parseParen calls advance the cursor past the end
C23_Witness ==
    /\ Returned
    /\ tokens = <<LParenTok, LParenTok, VarTok>>
    /\ parsed.cur = Len(tokens) + 2

\* toks with at most one token appended
Appended(toks, after) ==
    /\ Len(after) \in {Len(toks), Len(toks) + 1}
    /\ Prefix(after, Len(toks)) = toks

\* the characters from..to of t are the maximal run of whitespace at from
SkipsWhitespace(t, from, to) ==
    /\ \A j \in from..to : isspace(t[j])
    /\ ~isspace(At(t, to + 1))

(***************************************************************************)
(* C24: in every step of Lexer.lex the cursor does not decrease; an        *)
(* iteration of the main loop that does not raise advances it by at least  *)
(* one character and not beyond the end of the text, appends at most one   *)
(* token at the end of the token list, and leaves the tokens of exactly    *)
(* the text read so far; an iteration that starts at whitespace consumes   *)
(* the whole run of whitespace and appends no token; lexing ends with the  *)
(* token list or with a LexerError.                                        *)
(***************************************************************************)
C24_ForwardPass ==
    [][ /\ curPosition' >= curPosition
        /\ lpc' = "lex" =>
              /\ curPosition' > curPosition
              /\ curPosition' <= Len(input_str)
              /\ Appended(lexed.tokens, lexed'.tokens)
              /\ lexed'.tokens = Lexer(Prefix(input_str, curPosition')).tokens
              /\ isspace(input_str[curPosition + 1]) =>
                    /\ lexed'.tokens = lexed.tokens
                    /\ SkipsWhitespace(input_str, curPosition + 1, curPosition')
              /\ ~isspace(input_str[curPosition + 1]) =>
                    Len(lexed'.tokens) = Len(lexed.tokens) + 1
        /\ lpc' = "done" =>
              /\ lexed' = Lexer(input_str)
              /\ \/ lexed'.err = "" /\ lexed'.tokens = lexed.tokens
                    /\ curPosition = Len(input_str)
                 \/ /\ lexed'.err \in {"Invalid character", "Multiple decimal points"}
                    /\ lexed'.pos = curPosition' + 1
      ]_vars

\* `11  e`: three iterations, the second one skips both blanks
C24_Witness ==
    /\ lpc = "done"
    /\ input_str = <<"1", "1", " ", " ", "e">>
    /\ curPosition = 5
    /\ lexed.tokens = <<Token("number", Int2Rat(11)), Token("function", "e")>>

\* a op b op ... op z with all operators on the level of '+' and '-' or all
\* on the level of '*' and '/'
IsLevelChain(toks) ==
    /\ Len(toks) >= 5 /\ Len(toks) % 2 = 1
    /\ \A i \in 1..Len(toks) : i % 2 = 1 => IsOperandTok(toks[i])
    /\ \/ \A i \in 1..Len(toks) : i % 2 = 0 => toks[i].type \in {"plus", "minus"}
       \/ \A i \in 1..Len(toks) : i % 2 = 0 => toks[i].type \in {"asterisk", "slash"}

\* ((a op b) op c) ... op z
RECURSIVE LeftChain(_)
LeftChain(toks) ==
    IF Len(toks) = 1 THEN OperandNode(toks[1])
    ELSE InfixExpression(LeftChain(SubSeq(toks, 1, Len(toks) - 2)),
                         toks[Len(toks) - 1].value, OperandNode(toks[Len(toks)]))

(***************************************************************************)
(* C25: a chain a op b op ... op z of number and variable operands whose   *)
(* operators are all among + - or all among * / parses left-nested,        *)
(* ((a op b) op c) ... op z, whatever its length.                          *)
(***************************************************************************)
C25_LeftAssociative ==
    (Done /\ IsLevelChain(tokens)) => parsed = Ok(LeftChain(tokens), Len(tokens))

\* 2 - 1 - x - 1 is ((2 - 1) - x) - 1
C25_Witness ==
    /\ Returned
    /\ tokens = <<NumTok(2), OpTok("-"), NumTok(1), OpTok("-"), VarTok, OpTok("-"), NumTok(1)>>
    /\ parsed.node =
          InfixExpression(
              InfixExpression(
                  InfixExpression(NumberLiteral(Int2Rat(2)), "-", NumberLiteral(Int2Rat(1))),
                  "-", Variable("x")),
              "-", NumberLiteral(Int2Rat(1)))

(***************************************************************************)
(* C30: a call of adaptive_sampling leaves the list it was given as        *)
(* must_evaluate_points (the caller's list or the shared default list)     *)
(* with the contents it had, and the same call made again returns the same *)
(* x grid and the same outcome.                                            *)
(***************************************************************************)
C30_CallerListUnchanged ==
    [][ spc' \in {"done", "again"} =>
          /\ must_evaluate_points' = must_evaluate_points
          /\ spc' = "again" =>
                /\ sampled'.x = sampled.x
                /\ sampled'.exc = sampled.exc
                /\ sampled'.y = sampled.y
      ]_vars

\* two calls with the list [7, -1]: 0 is in the grid, not in the list
C30_Witness ==
    /\ spc = "again"
    /\ must_evaluate_points = <<Int2Rat(7), Int2Rat(-1)>>
    /\ sampled.exc = ""
    /\ Zero \in Range(sampled.x)

(***************************************************************************)
(* Vocabulary of the application                                           *)
(***************************************************************************)
\* the worker the thread pool runs in this step, and the signals it emits
PlotWorkerRuns ==
    /\ pool # <<>>
    /\ Head(pool).kind = "PlotWorker"
    /\ pool' = Tail(pool)
    /\ Len(events') >= Len(events)
Emits == SubSeq(events', Len(events) + 1, Len(events'))

\* what parsing and sampling the text f of worker w comes to, taken on its own
SamplesOf(w, f) ==
    adaptive_sampling(Evaluator(parse_expression(f).node),
                      -x_scale_max_limit(w), x_scale_max_limit(w), num_points_of(w),
                      w.intersection_points, tolerance)
FailsIn(w, f) ==
    /\ f # <<>>
    /\ \/ parse_expression(f).err # ""
       \/ SamplesOf(w, f).exc # ""

ErrorsTagged(sigs, input) ==
    {i \in 1..Len(sigs) : sigs[i].signal = "error" /\ sigs[i].input = input}

\* x and y of one function in the emitted plot data
DataOfSide(w, f, x, y) ==
    IF f = <<>> \/ FailsIn(w, f) THEN x = <<>> /\ y = <<>>
    ELSE x # <<>> /\ x = SamplesOf(w, f).x /\ y = SamplesOf(w, f).y

RunShape(w, sigs) ==
    /\ Len(sigs) >= 1
    /\ \A i \in 1..Len(sigs) :
          /\ sigs[i].sender = "PlotWorker"
          /\ sigs[i].signal = "finished" <=> i = Len(sigs)
    /\ Cardinality(ErrorsTagged(sigs, "f1")) = (IF FailsIn(w, w.f1_str) THEN 1 ELSE 0)
    /\ Cardinality(ErrorsTagged(sigs, "f2")) = (IF FailsIn(w, w.f2_str) THEN 1 ELSE 0)
    /\ \A i \in ErrorsTagged(sigs, "f1"), j \in ErrorsTagged(sigs, "f2") : i < j
    /\ DataOfSide(w, w.f1_str, sigs[Len(sigs)].plot_data.x1, sigs[Len(sigs)].plot_data.y1)
    /\ DataOfSide(w, w.f2_str, sigs[Len(sigs)].plot_data.x2, sigs[Len(sigs)].plot_data.y2)
    /\ sigs[Len(sigs)].intersection_points = w.intersection_points

(***************************************************************************)
(* C28: a run of PlotWorker emits finished exactly once, as its last       *)
(* signal; it emits one error tagged "f1" exactly when f1 is not empty and *)
(* its parsing or sampling fails, and then x1 and y1 of the plot data are  *)
(* unset; the same holds for f2 with "f2", x2 and y2; the data of a        *)
(* function that is not empty and does not fail are its sampled x and y,   *)
(* whatever the other function does; an empty text gives no error signal.  *)
(***************************************************************************)
C28_FinishedOnceLast == [][PlotWorkerRuns => RunShape(Head(pool), Emits)]_vars

\* f1 = e(x) raised UnknownFunctionError, f2 = x is in the plot data
C28_Witness ==
    /\ pool = <<>>
    /\ Len(events) = 2
    /\ events[1].sender = "PlotWorker" /\ events[1].signal = "error"
    /\ events[1].input = "f1" /\ events[1].exc = "UnknownFunctionError"
    /\ events[2].signal = "finished"
    /\ events[2].plot_data.x1 = <<>>
    /\ Zero \in Range(events[2].plot_data.x2)

\* the flag and the label of a field are those of tokenizing its stripped text
Validated(text, valid, label) ==
    IF Lexer(strip(text)).err = "" THEN valid /\ label = ""
    ELSE ~valid /\ label = Lexer(strip(text)).err

\* C29 as stated: `xx` is a text that tokenizes and does not parse
C29_XxUnparsed ==
    [][ /\ f1_input' # f1_input =>
             /\ Validated(f1_input', f1_valid', f1_error_label')
             /\ UNCHANGED <<f2_input, f2_valid, f2_error_label>>
             /\ f1_input' = <<"x", "x">> => parse_expression(strip(f1_input')).err # ""
        /\ f2_input' # f2_input =>
             /\ Validated(f2_input', f2_valid', f2_error_label')
             /\ UNCHANGED <<f1_input, f1_valid, f1_error_label>>
             /\ f2_input' = <<"x", "x">> => parse_expression(strip(f2_input')).err # ""
      ]_vars

(***************************************************************************)
(* C29: after every edit of an input field its valid flag is False exactly *)
(* when tokenizing its stripped text raises a LexerError, and then its     *)
(* error label shows the lexer message; otherwise the flag is True and the *)
(* label is empty, also when the text does not parse.  The edit leaves the *)
(* text, the flag and the label of the other field as they were.  At all   *)
(* times the flag of a field tells whether its stripped text tokenizes.    *)
(* (`1+` is a text that tokenizes and does not parse; `xx` parses.)        *)
(***************************************************************************)
C29_EditValidates ==
    [][ /\ f1_input' # f1_input =>
             /\ Validated(f1_input', f1_valid', f1_error_label')
             /\ UNCHANGED <<f2_input, f2_valid, f2_error_label>>
        /\ f2_input' # f2_input =>
             /\ Validated(f2_input', f2_valid', f2_error_label')
             /\ UNCHANGED <<f1_input, f1_valid, f1_error_label>>
        /\ f1_valid' <=> Lexer(strip(f1_input')).err = ""
        /\ f2_valid' <=> Lexer(strip(f2_input')).err = ""
        /\ f1_input' = <<"x", "x">> => parse_expression(strip(f1_input')).err = ""
        /\ f1_input' = <<"1", "+">> => parse_expression(strip(f1_input')).err # ""
      ]_vars

\* `x,` edited into the first field while the second holds `1+`, still
\* labelled by the plot before: "Invalid Expression"
C29_Witness ==
    /\ f1_input = <<"x", ",">>
    /\ ~f1_valid
    /\ f1_error_label = "Invalid character"
    /\ f2_input = <<"1", "+">>
    /\ f2_valid
    /\ f2_error_label = "Invalid Expression"
    /\ enabled["f1_input"]

\* workers in flight: started and not yet run, or run with the finished
\* signal not yet handled
FinishedPending == {i \in 1..Len(events) : events[i].signal = "finished"}
InFlight == Len(pool) + Cardinality(FinishedPending)
Processing == pool # <<>> \/ events # <<>>
AllDisabled == \A w \in Widgets : ~enabled[w]
AllEnabled == \A w \in Widgets : enabled[w]

\* a worker is started in this step
Starts == Len(pool') > Len(pool)
Started == pool'[Len(pool')]

(***************************************************************************)
(* C27: at most one background worker is in flight at any time; while one  *)
(* is, or a signal of one waits for the main thread, every button and      *)
(* field is disabled.  A worker is started either by a click, when nothing *)
(* is in flight, or by the slot of the SolverWorker's finished signal, and *)
(* then it is a PlotWorker whose intersection points are those of that     *)
(* signal.                                                                 *)
(***************************************************************************)
C27_OneWorkerInFlight ==
    [][ /\ InFlight' <= 1
        /\ Processing' => AllDisabled'
        /\ Starts =>
             \/ /\ InFlight = 0
                /\ events = <<>>
                /\ AllEnabled
                /\ Started.kind = "PlotWorker" => Started.intersection_points = <<>>
             \/ /\ events # <<>>
                /\ Head(events).sender = "SolverWorker"
                /\ Head(events).signal = "finished"
                /\ events' = <<>>
                /\ pool = <<>>
                /\ Started.kind = "PlotWorker"
                /\ Started.intersection_points = Head(events).intersection_points
      ]_vars

\* the PlotWorker of a Solve-and-plot request, started with the root 1
C27_Witness ==
    /\ pool # <<>>
    /\ Head(pool).kind = "PlotWorker"
    /\ Head(pool).intersection_points = <<Int2Rat(1)>>
    /\ events = <<>>
    /\ solver_worker = "None"
    /\ AllDisabled

\* what is left of a request: a SolverWorker is followed by its signal, the
\* signal by a PlotWorker, a PlotWorker by at most three signals
WorkLeft(w) == IF w.kind = "SolverWorker" THEN 6 ELSE 4
SignalLeft(e) == IF e.sender = "SolverWorker" THEN 5 ELSE 1
RECURSIVE SumOver(_, _)
SumOver(q, i) ==
    IF i > Len(q) THEN 0
    ELSE (IF "kind" \in DOMAIN q[i] THEN WorkLeft(q[i]) ELSE SignalLeft(q[i]))
         + SumOver(q, i + 1)
Left == SumOver(pool, 1) + SumOver(events, 1)

\* a step of a worker or of the slot of a signal
Proceeds ==
    \/ RunPlotWorker
    \/ RunSolverWorker
    \/ DeliverPlotError
    \/ DeliverPlotFinished
    \/ DeliverSolverFinished

\* the guards of the steps of Proceeds: one of them can be taken
CanProceed ==
    \/ /\ pool # <<>>
       /\ \/ Head(pool).kind = "PlotWorker"
          \/ /\ Head(pool).kind = "SolverWorker"
             /\ solve(Head(pool).f1_str, Head(pool).f2_str) # {}
    \/ /\ events # <<>>
       /\ <<Head(events).sender, Head(events).signal>> \in
             {<<"PlotWorker", "error">>, <<"PlotWorker", "finished">>,
              <<"SolverWorker", "finished">>}

====
